---------------------------- MODULE Spec2Model ----------------------------
(***************************************************************************)
(* Model of the Dynamixel Protocol 2.0 handler of haguro/go-dxl            *)
(* (protocol/v2): the instruction encoder, the status parser, the          *)
(* byte-at-a-time status reader with its timer, and the per-instruction    *)
(* handler methods.                                                        *)
(*                                                                         *)
(* Bytes are naturals 0..255 and byte slices are sequences.  Go offsets    *)
(* are 0-based: At(s, i) is s[i].                                          *)
(*                                                                         *)
(* Time is counted in ticks.  The reader polls the transport faster than   *)
(* the clock ticks: it consumes every byte that is available without the   *)
(* clock moving, and the clock moves by one tick on a poll that finds no   *)
(* data and whose timer has not fired.  A timer created at t with          *)
(* duration d has fired at every poll made at t + d or later.              *)
(***************************************************************************)
EXTENDS Naturals, Integers, Sequences, FiniteSets

VARIABLES
    configured,   \* the readTimeout NewHandler was called with, in ticks
    readTimeout,  \* Handler.readTimeout, in ticks
    call,         \* the handler method running and its arguments
    tx,           \* the packets handed to rw.Write, in order
    wr,           \* what the last rw.Write returned: none, ok, error
    rx,           \* bytes buffered in the transport, not yet read
    pending,      \* bytes the device side has still to put into the transport
    rd,           \* what the last rw.Read returned: byte, EOF, zero, error
    nreads,       \* rw.Read calls made by the running handler call
    consumed,     \* bytes taken out of the transport by the running handler call
    zeros,        \* reads that returned (0, nil) so far
    pc,           \* position of the handler: idle, header, idlen, body, done
    now,          \* ticks since the running readStatus call began
    timerAt,      \* value of now when the running readWithTimeout made its timer
    lastByteAt,   \* value of now when readStatus last obtained a byte
    packet,       \* readStatus: the header window, then the packet assembled
    buf,          \* readWithTimeout: the bytes b[0..i-1] filled so far
    want,         \* readWithTimeout: len(b)
    p0,           \* readWithTimeout: p[0], the one-byte scratch buffer
    result,       \* what the last readStatus call returned
    nstatus,      \* readStatus calls started by the running handler call
    responses,    \* SyncRead/BulkRead: the replies collected so far
    ret,          \* what the handler method returned
    dev,          \* what the device side was scripted to send
    codec,        \* the codec function last applied, its input and its output
    chain         \* the simulated devices the transport is, if it is a chain

\* the transport and the environment
tvars == <<configured, readTimeout, call, tx, wr, rx, pending, rd, nreads,
           consumed, zeros, dev>>

\* the locals of the handler method, of readStatus and of readWithTimeout
hvars == <<pc, now, timerAt, lastByteAt, packet, buf, want, p0, result,
           nstatus, responses, ret>>

vars == <<tvars, hvars, codec, chain>>

---------------------------------------------------------------------------
(* Bounds of the model. *)

MaxTimeout == 2      \* read deadlines of 1..MaxTimeout ticks
MaxPrefix == 4       \* leading garbage of up to MaxPrefix bytes
MaxIds == 2          \* SyncRead / BulkRead / FastSyncRead over up to MaxIds ids
MaxLength == 2       \* Read / SyncRead / FastSyncRead of 0..MaxLength bytes
MaxParams == 3       \* statuses of 0..MaxParams parameter bytes
MaxZeroReads == 2    \* at most MaxZeroReads reads return (0, nil) in a call

---------------------------------------------------------------------------
(* Protocol constants. *)

header1 == 255
header2 == 255
header3 == 253
headerR == 0
BroadcastID == 254
StatusLenMin == 4        \* instruction, error, crc(low), crc(high)
PingParamCount == 3
DefaultReadTimeout == 20

ping == 1
read == 2
write == 3
regWrite == 4
action == 5
reset == 6
reboot == 8
clear == 16
backup == 32
statusCmd == 85
syncRead == 130
syncWrite == 131
fastSyncRead == 138
fastBulkRead == 154
bulkRead == 146
bulkWrite == 147

Byte == 0..255

At(s, i) == s[i + 1]

\* s[lo:hi] of Go
Slice(s, lo, hi) == IF hi <= lo THEN <<>> ELSE SubSeq(s, lo + 1, hi)

Lo(v) == v % 256
Hi(v) == (v \div 256) % 256

RECURSIVE Concat(_)
Concat(ss) == IF ss = <<>> THEN <<>> ELSE Head(ss) \o Concat(Tail(ss))

---------------------------------------------------------------------------
(* CRC-16 of the protocol: polynomial 0x8005, initial value 0, no          *)
(* reflection, no final xor, computed one bit at a time (the table-driven  *)
(* form crc = (crc << 8) ^ table[((crc >> 8) ^ b) & 0xFF] computes the     *)
(* same value).                                                            *)

\* crc ^ 0x8005 for a 16-bit crc whose bit 0 is clear
XorPoly(s) ==
    LET a == s + 1
        b == IF (a \div 4) % 2 = 1 THEN a - 4 ELSE a + 4
    IN  IF b >= 32768 THEN b - 32768 ELSE b + 32768

CrcBit(crc, bit) ==
    LET s == (2 * crc) % 65536
    IN  IF (crc \div 32768) # bit THEN XorPoly(s) ELSE s

\* (the register after each bit and each byte is bound as a value, so that
\* it is computed once)
RECURSIVE CrcByte(_, _, _)
CrcByte(crc, b, k) ==
    IF k = 0 THEN crc
    ELSE CHOOSE r \in {CrcByte(c, b, k - 1) :
                         c \in {CrcBit(crc, (b \div (2 ^ (k - 1))) % 2)}} : TRUE

\* the register is a 16-bit value before and after every byte
RECURSIVE CrcFrom(_, _)
CrcFrom(crc, bytes) ==
    IF bytes = <<>> \/ crc \notin 0..65535 THEN crc
    ELSE CHOOSE r \in {CrcFrom(c, Tail(bytes)) :
                         c \in {CrcByte(crc, Head(bytes), 8)}} : TRUE

crc16(bytes) == CrcFrom(0, bytes)

---------------------------------------------------------------------------
(* Byte stuffing. *)

IsTriple(s, i) ==
    /\ i + 2 < Len(s)
    /\ At(s, i) = header1 /\ At(s, i + 1) = header2 /\ At(s, i + 2) = header3

RECURSIVE StuffFrom(_, _)
StuffFrom(s, i) ==
    IF i >= Len(s) THEN <<>>
    ELSE IF IsTriple(s, i)
         THEN <<header1, header2, header3, header3>> \o StuffFrom(s, i + 3)
         ELSE <<At(s, i)>> \o StuffFrom(s, i + 1)

\* inserts FD after every FF FF FD, left to right, never re-scanning its output
stuff(s) == StuffFrom(s, 0)

RECURSIVE UnstuffFrom(_, _)
UnstuffFrom(s, i) ==
    IF i >= Len(s) THEN <<>>
    ELSE IF IsTriple(s, i) /\ i + 3 < Len(s) /\ At(s, i + 3) = header3
         THEN <<header1, header2, header3>> \o UnstuffFrom(s, i + 4)
         ELSE <<At(s, i)>> \o UnstuffFrom(s, i + 1)

unstuff_Rescan(s) == UnstuffFrom(UnstuffFrom(s, 0), 0)

\* collapses every FF FF FD FD to FF FF FD, left to right, never re-scanning
unstuff(s) == UnstuffFrom(s, 0)

---------------------------------------------------------------------------
(* Instruction encoder. *)

ValidID(id) == id # 253 /\ id # 255

packetBytes_RawLength(id, command, params) ==
    IF ~ValidID(id) THEN [err |-> "ErrInvalidID", bytes |-> <<>>]
    ELSE LET sp == stuff(params)
             length == 3 + Len(params)
             body == <<header1, header2, header3, headerR,
                       id, Lo(length), Hi(length), command>> \o sp
             crc == crc16(body)
         IN  [err |-> "nil", bytes |-> body \o <<Lo(crc), Hi(crc)>>]

\* instruction.packetBytes: [err, bytes]
packetBytes(id, command, params) ==
    IF ~ValidID(id) THEN [err |-> "ErrInvalidID", bytes |-> <<>>]
    ELSE LET sp == stuff(params)
             length == 3 + Len(sp)
             body == <<header1, header2, header3, headerR,
                       id, Lo(length), Hi(length), command>> \o sp
             crc == crc16(body)
         IN  [err |-> "nil", bytes |-> body \o <<Lo(crc), Hi(crc)>>]

---------------------------------------------------------------------------
(* Status packets. *)

NoStatus == [id |-> 0, err |-> "nil", params |-> <<>>]

DeviceErrors_Shifted ==
    <<"ErrDeviceError", "ErrResultError", "ErrInstructionError",
      "ErrDeviceCRCError", "ErrDataRangeError", "ErrDataLengthError",
      "ErrDataLimitError">>

\* the device errors by the value of the low 7 bits of the error byte
DeviceErrors ==
    <<"ErrResultError", "ErrInstructionError", "ErrDeviceCRCError",
      "ErrDataRangeError", "ErrDataLengthError", "ErrDataLimitError",
      "ErrAccessError">>

\* the device error an error byte decodes to ("nil": none)
deviceError(e) ==
    IF e % 128 \in 1..7 THEN DeviceErrors[e % 128]
    ELSE IF e >= 128 THEN "ErrDeviceError"
    ELSE "nil"

\* the wire bytes of a status {id, error byte, params}
statusBytes(id, errByte, params) ==
    LET sp == stuff(params)
        length == StatusLenMin + Len(sp)
        body == <<header1, header2, header3, headerR,
                  id, Lo(length), Hi(length), statusCmd, errByte>> \o sp
        crc == crc16(body)
    IN  body \o <<Lo(crc), Hi(crc)>>

parseStatusPacket_CrcFirst(p) ==
    LET n == Len(p)
        length == At(p, 5) + 256 * At(p, 6)
        crc == crc16(Slice(p, 0, n - 2))
    IN  IF n < 7 + StatusLenMin
        THEN [perr |-> "ErrTruncatedStatus", st |-> NoStatus]
        ELSE IF At(p, n - 2) # Lo(crc) \/ At(p, n - 1) # Hi(crc)
        THEN [perr |-> "ErrStatusCRCInvalid", st |-> NoStatus]
        ELSE IF \/ At(p, 0) # header1 \/ At(p, 1) # header2
                \/ At(p, 2) # header3 \/ At(p, 3) # headerR
                \/ At(p, 7) # statusCmd
        THEN [perr |-> "ErrMalformedStatus", st |-> NoStatus]
        ELSE IF length + 7 # n
        THEN [perr |-> "ErrInvalidStatusLength", st |-> NoStatus]
        ELSE [perr |-> "nil",
              st |-> [id |-> At(p, 4),
                      err |-> deviceError(At(p, 8)),
                      params |-> unstuff(Slice(p, 9, n - 2))]]

\* parseStatusPacket: [perr, st], st the status when perr = "nil"
parseStatusPacket(p) ==
    LET n == Len(p)
        length == At(p, 5) + 256 * At(p, 6)
        crc == crc16(Slice(p, 0, n - 2))
    IN  IF n < 7 + StatusLenMin
        THEN [perr |-> "ErrTruncatedStatus", st |-> NoStatus]
        ELSE IF \/ At(p, 0) # header1 \/ At(p, 1) # header2
                \/ At(p, 2) # header3 \/ At(p, 3) # headerR
                \/ At(p, 7) # statusCmd
        THEN [perr |-> "ErrMalformedStatus", st |-> NoStatus]
        ELSE IF length + 7 # n
        THEN [perr |-> "ErrInvalidStatusLength", st |-> NoStatus]
        ELSE IF At(p, n - 2) # Lo(crc) \/ At(p, n - 1) # Hi(crc)
        THEN [perr |-> "ErrStatusCRCInvalid", st |-> NoStatus]
        ELSE [perr |-> "nil",
              st |-> [id |-> At(p, 4),
                      err |-> deviceError(At(p, 8)),
                      params |-> unstuff(Slice(p, 9, n - 2))]]

---------------------------------------------------------------------------
(* The handler.  The locals of the running method, of readStatus and of    *)
(* readWithTimeout are carried in a record so that the code after a        *)
(* transport read can be followed to the next transport read in one step.  *)

Reading == {"header", "idlen", "body"}

Cur ==
    [pc |-> pc, now |-> now, timerAt |-> timerAt, lastByteAt |-> lastByteAt,
     packet |-> packet, buf |-> buf, want |-> want, p0 |-> p0,
     result |-> result, nstatus |-> nstatus, responses |-> responses,
     ret |-> ret]

Set(s) ==
    /\ pc' = s.pc /\ now' = s.now /\ timerAt' = s.timerAt
    /\ lastByteAt' = s.lastByteAt /\ packet' = s.packet /\ buf' = s.buf
    /\ want' = s.want /\ p0' = s.p0 /\ result' = s.result
    /\ nstatus' = s.nstatus /\ responses' = s.responses /\ ret' = s.ret

NewHandler_NoDefault(t) == t

\* NewHandler: the handler's read deadline for a configured value
NewHandler(t) == IF t = 0 THEN DefaultReadTimeout ELSE t

NoCall ==
    [m |-> "none", id |-> 0, addr |-> 0, length |-> 0, option |-> 0,
     data |-> <<>>, ids |-> <<>>, descs |-> <<>>]

NoResult == [err |-> "none", st |-> NoStatus]

NoPing == [ID |-> 0, Model |-> 0, Firmware |-> 0]

\* the zero value a method returns beside an error
ZeroData(m) == IF m = "Ping" THEN NoPing ELSE <<>>

\* the method returns (e, d)
Return(s, e, d) == [s EXCEPT !.pc = "done", !.ret = [err |-> e, data |-> d]]

\* the method returns the error e and no data
Fail(s, e) == Return(s, e, ZeroData(call.m))

\* readWithTimeout is entered with a buffer of n bytes: a new timer, a new p
startRead(s, n) ==
    [s EXCEPT !.buf = <<>>, !.want = n, !.p0 = 0, !.timerAt = s.now]

\* readStatus is entered: the header search asks for its first byte
enterReadStatus(s) ==
    startRead([s EXCEPT !.pc = "header", !.packet = <<>>, !.now = 0,
                        !.lastByteAt = 0, !.nstatus = @ + 1], 1)

---------------------------------------------------------------------------
(* What each method does with the status readStatus returned.              *)

PingReply_BigEndian(s, r) ==
    IF r.err # "nil" THEN Fail(s, r.err)
    ELSE IF r.st.err # "nil" THEN Fail(s, r.st.err)
    ELSE IF Len(r.st.params) # PingParamCount
    THEN Fail(s, "ErrUnexpectedParamCount")
    ELSE Return(s, "nil",
                [ID |-> r.st.id,
                 Model |-> 256 * At(r.st.params, 0) + At(r.st.params, 1),
                 Firmware |-> At(r.st.params, 2)])

\* Ping, after readStatus
PingReply(s, r) ==
    IF r.err # "nil" THEN Fail(s, r.err)
    ELSE IF r.st.err # "nil" THEN Fail(s, r.st.err)
    ELSE IF Len(r.st.params) # PingParamCount
    THEN Fail(s, "ErrUnexpectedParamCount")
    ELSE Return(s, "nil",
                [ID |-> r.st.id,
                 Model |-> At(r.st.params, 0) + 256 * At(r.st.params, 1),
                 Firmware |-> At(r.st.params, 2)])

\* a Read that rejects only a reply shorter than asked for
ReadReply_ShortOnly(s, r) ==
    IF r.err # "nil" THEN Fail(s, r.err)
    ELSE IF r.st.err # "nil" THEN Fail(s, r.st.err)
    ELSE IF Len(r.st.params) < call.length
    THEN Fail(s, "ErrUnexpectedParamCount")
    ELSE Return(s, "nil", r.st.params)

\* Read, after readStatus
ReadReply(s, r) ==
    IF r.err # "nil" THEN Fail(s, r.err)
    ELSE IF r.st.err # "nil" THEN Fail(s, r.st.err)
    ELSE IF Len(r.st.params) # call.length
    THEN Fail(s, "ErrUnexpectedParamCount")
    ELSE Return(s, "nil", r.st.params)

\* a handler that takes a status only from the device it addressed
AckReply_SameID(s, r) ==
    IF r.err # "nil" THEN Fail(s, r.err)
    ELSE IF r.st.id # call.id THEN Fail(s, "ErrUnexpectedID")
    ELSE IF r.st.err # "nil" THEN Fail(s, r.st.err)
    ELSE Return(s, "nil", <<>>)

\* Write, RegWrite, Action, Reboot, FactoryReset, Clear, ControlTableBackup,
\* after readStatus
AckReply(s, r) ==
    IF r.err # "nil" THEN Fail(s, r.err)
    ELSE IF r.st.err # "nil" THEN Fail(s, r.st.err)
    ELSE Return(s, "nil", <<>>)

\* a reply loop that checks the parameter count before the device error
LoopReply_CountFirst(s, r, expect, n) ==
    IF r.err # "nil" THEN Fail(s, r.err)
    ELSE IF Len(r.st.params) # expect
    THEN Fail(s, "ErrUnexpectedParamCount")
    ELSE IF r.st.err # "nil" THEN Fail(s, r.st.err)
    ELSE LET got == Append(s.responses, r.st.params)
         IN  IF Len(got) < n
             THEN enterReadStatus([s EXCEPT !.responses = got])
             ELSE Return([s EXCEPT !.responses = got], "nil", got)

\* a reply loop that puts each reply in front of those it already has
LoopReply_Prepend(s, r, expect, n) ==
    IF r.err # "nil" THEN Fail(s, r.err)
    ELSE IF r.st.err # "nil" THEN Fail(s, r.st.err)
    ELSE IF Len(r.st.params) # expect
    THEN Fail(s, "ErrUnexpectedParamCount")
    ELSE LET got == <<r.st.params>> \o s.responses
         IN  IF Len(got) < n
             THEN enterReadStatus([s EXCEPT !.responses = got])
             ELSE Return([s EXCEPT !.responses = got], "nil", got)

\* a reply loop that returns the replies it has when one fails
LoopReply_KeepsPartial(s, r, expect, n) ==
    IF r.err # "nil" THEN Return(s, r.err, s.responses)
    ELSE IF r.st.err # "nil" THEN Return(s, r.st.err, s.responses)
    ELSE IF Len(r.st.params) # expect
    THEN Return(s, "ErrUnexpectedParamCount", s.responses)
    ELSE LET got == Append(s.responses, r.st.params)
         IN  IF Len(got) < n
             THEN enterReadStatus([s EXCEPT !.responses = got])
             ELSE Return([s EXCEPT !.responses = got], "nil", got)

\* one turn of the reply loop of SyncRead (expect = length) and of BulkRead
\* (expect = dd.Length), n being the number of turns
LoopReply(s, r, expect, n) ==
    IF r.err # "nil" THEN Fail(s, r.err)
    ELSE IF r.st.err # "nil" THEN Fail(s, r.st.err)
    ELSE IF Len(r.st.params) # expect
    THEN Fail(s, "ErrUnexpectedParamCount")
    ELSE LET got == Append(s.responses, r.st.params)
         IN  IF Len(got) < n
             THEN enterReadStatus([s EXCEPT !.responses = got])
             ELSE Return([s EXCEPT !.responses = got], "nil", got)

SyncReadReply(s, r) == LoopReply(s, r, call.length, Len(call.ids))

BulkReadReply(s, r) ==
    LoopReply(s, r, call.descs[Len(s.responses) + 1].Length, Len(call.descs))

fastSyncReadCount_NoIdByte(n, length) == length + (n - 1) * (length + 4)

\* the parameter count FastSyncRead accepts
fastSyncReadCount(n, length) == length + (n - 1) * (length + 4) + 1

\* r.params[lo:hi] of FastSyncRead's i-th response
fastSyncReadLo(i, length) == length + 5 + (i - 1) * 8

\* FastSyncRead, after readStatus; a slice expression whose bounds pass the
\* end of the parameters panics
FastSyncReadReply(s, r) ==
    LET n == Len(call.ids)
        length == call.length
        params == r.st.params
        lo(i) == IF i = 0 THEN 1 ELSE fastSyncReadLo(i, length)
        inRange == \A i \in 0..(n - 1) : lo(i) + length <= Len(params)
    IN  IF r.err # "nil" THEN Fail(s, r.err)
        ELSE IF r.st.err # "nil" THEN Fail(s, r.st.err)
        ELSE IF Len(params) # fastSyncReadCount(n, length)
        THEN Fail(s, "ErrUnexpectedParamCount")
        ELSE IF ~inRange THEN Fail(s, "panic")
        ELSE Return(s, "nil",
                    [i \in 1..n |-> Slice(params, lo(i - 1), lo(i - 1) + length)])

\* readStatus returned r to the method that called it
statusReturned(s, r) ==
    LET t == [s EXCEPT !.result = r]
    IN  CASE call.m = "Ping" -> PingReply(t, r)
          [] call.m = "Read" -> ReadReply(t, r)
          [] call.m = "SyncRead" -> SyncReadReply(t, r)
          [] call.m = "BulkRead" -> BulkReadReply(t, r)
          [] call.m = "FastSyncRead" -> FastSyncReadReply(t, r)
          [] call.m = "readStatus" -> Return(t, r.err, <<>>)
          [] OTHER -> AckReply(t, r)

---------------------------------------------------------------------------
(* readStatus and readWithTimeout.                                         *)

\* a timer of twice the configured duration
TimerExpired_Doubled(s) == s.now - s.timerAt >= 2 * readTimeout

\* a timer that fires one tick early
TimerExpired_Early(s) == s.now - s.timerAt >= readTimeout - 1

\* the timer of the running readWithTimeout has fired
TimerExpired(s) == s.now - s.timerAt >= readTimeout

\* a reader that takes the length field not to count the two CRC bytes
statusLength_WithoutCrc(idLength) == At(idLength, 1) + 256 * At(idLength, 2) + 2

\* a reader that takes the length from the id and the low length byte
statusLength_FromID(idLength) == At(idLength, 0) + 256 * At(idLength, 1)

\* the length field of the three bytes read after the header
statusLength(idLength) == At(idLength, 1) + 256 * At(idLength, 2)

\* the last four bytes of the window are the header pattern
headerFound(w) ==
    LET hl == Len(w)
    IN  /\ hl >= 4
        /\ At(w, hl - 4) = header1 /\ At(w, hl - 3) = header2
        /\ At(w, hl - 2) = header3 /\ At(w, hl - 1) = headerR

\* a reader that starts a new window after four bytes that do not match
slideWindow_Restart(w) == IF Len(w) >= 4 THEN <<>> ELSE w

\* the window after a byte that did not complete the header
slideWindow(w) == IF Len(w) >= 4 THEN Tail(w) ELSE w

\* a reader that does not put the id and the length into the packet
readStatusStep_DropsIdLength(s, b) ==
    CASE s.pc = "header" ->
            LET w == s.packet \o b
            IN  IF headerFound(w)
                THEN startRead([s EXCEPT !.pc = "idlen", !.packet = w], 3)
                ELSE startRead([s EXCEPT !.packet = slideWindow(w)], 1)
      [] s.pc = "idlen" ->
            IF statusLength(b) < StatusLenMin
            THEN statusReturned(s, [err |-> "ErrInvalidStatusLength",
                                    st |-> NoStatus])
            ELSE startRead([s EXCEPT !.pc = "body"], statusLength(b))
      [] s.pc = "body" ->
            LET pkt == s.packet \o b
                parsed == parseStatusPacket(pkt)
            IN  statusReturned([s EXCEPT !.packet = pkt],
                               [err |-> parsed.perr, st |-> parsed.st])

\* a reader that leaves the check of the length to the parser
readStatusStep_LengthLater(s, b) ==
    CASE s.pc = "header" ->
            LET w == s.packet \o b
            IN  IF headerFound(w)
                THEN startRead([s EXCEPT !.pc = "idlen", !.packet = w], 3)
                ELSE startRead([s EXCEPT !.packet = slideWindow(w)], 1)
      [] s.pc = "idlen" ->
            startRead([s EXCEPT !.pc = "body", !.packet = s.packet \o b],
                      statusLength(b))
      [] s.pc = "body" ->
            LET pkt == s.packet \o b
                parsed == parseStatusPacket(pkt)
            IN  statusReturned([s EXCEPT !.packet = pkt],
                               [err |-> parsed.perr, st |-> parsed.st])

\* readStatus, from the return of a readWithTimeout that filled b
readStatusStep(s, b) ==
    CASE s.pc = "header" ->
            LET w == s.packet \o b
            IN  IF headerFound(w)
                THEN startRead([s EXCEPT !.pc = "idlen", !.packet = w], 3)
                ELSE startRead([s EXCEPT !.packet = slideWindow(w)], 1)
      [] s.pc = "idlen" ->
            IF statusLength(b) < StatusLenMin
            THEN statusReturned(s, [err |-> "ErrInvalidStatusLength",
                                    st |-> NoStatus])
            ELSE startRead([s EXCEPT !.pc = "body", !.packet = s.packet \o b],
                           statusLength(b))
      [] s.pc = "body" ->
            LET pkt == s.packet \o b
                parsed == parseStatusPacket(pkt)
            IN  statusReturned([s EXCEPT !.packet = pkt],
                               [err |-> parsed.perr, st |-> parsed.st])

\* a reader that starts over at the id when the bytes behind the header end
\* in the header pattern
gotByte_Resync(s, v) ==
    LET b == Append(s.buf, v)
        t == [s EXCEPT !.buf = b]
    IN  IF s.pc \in {"idlen", "body"} /\ headerFound(s.packet \o b)
        THEN startRead([s EXCEPT !.pc = "idlen",
                                 !.packet = <<header1, header2, header3, headerR>>], 3)
        ELSE IF Len(b) < s.want THEN t ELSE readStatusStep(t, b)

\* readWithTimeout: b[i] = p[0], then the next i or the return to readStatus
gotByte(s, v) ==
    LET b == Append(s.buf, v)
        t == [s EXCEPT !.buf = b]
    IN  IF Len(b) < s.want THEN t ELSE readStatusStep(t, b)

---------------------------------------------------------------------------
(* The device side: a script is a sequence of items, each some garbage     *)
(* followed by at most one status packet.                                  *)

Silence(pre) ==
    [pre |-> pre, some |-> FALSE, id |-> 0, errByte |-> 0, params |-> <<>>]

Reply(pre, id, e, ps) ==
    [pre |-> pre, some |-> TRUE, id |-> id, errByte |-> e, params |-> ps]

itemBytes(it) ==
    it.pre \o (IF it.some THEN statusBytes(it.id, it.errByte, it.params)
               ELSE <<>>)

scriptBytes(sc) == Concat([i \in 1..Len(sc) |-> itemBytes(sc[i])])

\* the sequences of at most n elements of S
RECURSIVE SeqsUpTo(_, _)
SeqsUpTo(S, n) ==
    IF n = 0 THEN {<<>>}
    ELSE LET shorter == SeqsUpTo(S, n - 1)
         IN  shorter \cup {Append(q, x) : q \in shorter, x \in S}

---------------------------------------------------------------------------
(* The simulated device and the chain of simulated devices.                *)

ResetAll == 255
ResetExceptID == 1
ResetExceptIDBaud == 2
ClearMultiRotationPos == 1
BackupStore == 1
BackupRestore == 2

\* NewMockDevice: the device of a configuration
NewMockDevice(id, model, fw, table) ==
    [id |-> id, model |-> model, fw |-> fw, ctRAM |-> table,
     regWriteBuf |-> <<>>, regInstruction |-> FALSE, CTBackupReg |-> <<>>,
     defaultConfig |-> [ID |-> id, ModelNumber |-> model, FirmwareVer |-> fw,
                        ControlTableRAM |-> table]]

\* t[addr : addr+l] of Go and whether it is within the table
Window(t, addr, l) == Slice(t, addr, addr + l)
Within(t, addr, l) == addr + l <= Len(t)

\* t after t[addr+i] = data[i] for every i that is within t
Store(t, addr, data) ==
    [i \in 1..Len(t) |->
        IF i - 1 >= addr /\ i - 1 < addr + Len(data) THEN data[i - addr]
        ELSE t[i]]

\* copy(dst, src) of Go
Copy(dst, src) ==
    [i \in 1..Len(dst) |-> IF i <= Len(src) THEN src[i] ELSE dst[i]]

\* the status packet the simulated device builds: the parameters as they
\* are, the CRC over all that precedes it
mockStatus(id, errByte, params) ==
    LET length == StatusLenMin + Len(params)
        body == <<header1, header2, header3, headerR,
                  id, Lo(length), Hi(length), statusCmd, errByte>> \o params
        c == crc16(body)
    IN  body \o <<Lo(c), Hi(c)>>

\* what the switch of MockDevice.Write ends with: the device after it,
\* whether Write returned without a status (silent) or panicked, and the
\* error byte and the parameters of the status
Quiet(d) ==
    [dev |-> d, silent |-> TRUE, errByte |-> 0, params |-> <<>>,
     panic |-> FALSE]

Panicked(d) ==
    [dev |-> d, silent |-> TRUE, errByte |-> 0, params |-> <<>>,
     panic |-> TRUE]

Answer(d, errByte, params) ==
    [dev |-> d, silent |-> FALSE, errByte |-> errByte, params |-> params,
     panic |-> FALSE]

\* a write of data at addr, answered unless it leaves the table
Stored(d, addr, data) ==
    IF Within(d.ctRAM, addr, Len(data)) \/ data = <<>>
    THEN Answer([d EXCEPT !.ctRAM = Store(d.ctRAM, addr, data)], 0, <<>>)
    ELSE Panicked([d EXCEPT !.ctRAM = Store(d.ctRAM, addr, data)])

\* a read of l bytes at addr
Fetched(d, addr, l) ==
    IF Within(d.ctRAM, addr, l)
    THEN Answer(d, 0, Window(d.ctRAM, addr, l))
    ELSE Panicked(d)

\* SyncWrite: the data that follow the id of the device in the chunks of
\* l + 1 bytes, from the chunk at index i on
RECURSIVE syncWriteData(_, _, _, _)
syncWriteData(dataToWrite, i, l, id) ==
    IF i >= Len(dataToWrite) THEN [data |-> <<>>, panic |-> FALSE]
    ELSE LET rest == syncWriteData(dataToWrite, i + l + 1, l, id)
         IN  IF At(dataToWrite, i) # id THEN rest
             ELSE IF i + l + 1 > Len(dataToWrite)
             THEN [data |-> Slice(dataToWrite, i + 1, Len(dataToWrite)),
                   panic |-> TRUE]
             ELSE [data |-> Slice(dataToWrite, i + 1, i + 1 + l) \o rest.data,
                   panic |-> rest.panic]

\* BulkRead: the window of the last descriptor that names the device, from
\* the descriptor at index i on; params the window found so far
RECURSIVE bulkReadWindow(_, _, _, _)
bulkReadWindow(d, instParams, i, params) ==
    IF i >= Len(instParams) THEN [params |-> params, panic |-> FALSE]
    ELSE IF At(instParams, i) # d.id
    THEN bulkReadWindow(d, instParams, i + 5, params)
    ELSE IF i + 4 >= Len(instParams) THEN [params |-> params, panic |-> TRUE]
    ELSE LET addr == At(instParams, i + 1) + 256 * At(instParams, i + 2)
             l == At(instParams, i + 3) + 256 * At(instParams, i + 4)
         IN  IF ~Within(d.ctRAM, addr, l)
             THEN [params |-> params, panic |-> TRUE]
             ELSE bulkReadWindow(d, instParams, i + 5,
                                 Window(d.ctRAM, addr, l))

\* BulkWrite: the table after the descriptors from index i on
RECURSIVE bulkWriteTable(_, _, _, _)
bulkWriteTable(t, instParams, i, id) ==
    IF i >= Len(instParams) THEN [table |-> t, panic |-> FALSE]
    ELSE IF i + 4 >= Len(instParams) THEN [table |-> t, panic |-> TRUE]
    ELSE LET addr == At(instParams, i + 1) + 256 * At(instParams, i + 2)
             l == At(instParams, i + 3) + 256 * At(instParams, i + 4)
             data == Slice(instParams, 5 + i,
                           IF 5 + i + l > Len(instParams)
                           THEN Len(instParams) ELSE 5 + i + l)
         IN  IF At(instParams, i) # id
             THEN bulkWriteTable(t, instParams, i + 5 + l, id)
             ELSE IF 5 + i + l > Len(instParams) \/ ~Within(t, addr, l)
             THEN [table |-> Store(t, addr, data), panic |-> TRUE]
             ELSE bulkWriteTable(Store(t, addr, data), instParams,
                                 i + 5 + l, id)

\* the switch of MockDevice.Write on the instruction cmd of a packet for
\* the id, of the length field instLength and the parameters instParams
mockSwitch(d, id, instLength, cmd, instParams) ==
    LET addr == At(instParams, 0) + 256 * At(instParams, 1)
        l == At(instParams, 2) + 256 * At(instParams, 3)
        option == At(instParams, 0)
    IN  CASE cmd = ping -> Answer(d, 0, <<Lo(d.model), Hi(d.model), d.fw>>)
          [] cmd = read ->
               IF instLength # 7 THEN Quiet(d) ELSE Fetched(d, addr, l)
          [] cmd = write ->
               IF instLength < 6 THEN Quiet(d)
               ELSE Stored(d, addr, Slice(instParams, 2, 2 + instLength - 5))
          [] cmd = regWrite ->
               IF instLength < 6 THEN Quiet(d)
               ELSE Answer([d EXCEPT
                              !.regWriteBuf =
                                  Slice(instParams, 0, 2 + instLength - 5),
                              !.regInstruction = TRUE],
                           0, <<>>)
          [] cmd = action ->
               IF Len(d.regWriteBuf) < 2 \/ ~d.regInstruction
               THEN Answer(d, 2, <<>>)
               ELSE Stored([d EXCEPT !.regWriteBuf = <<>>,
                                     !.regInstruction = FALSE],
                           At(d.regWriteBuf, 0) + 256 * At(d.regWriteBuf, 1),
                           Slice(d.regWriteBuf, 2, Len(d.regWriteBuf)))
          [] cmd = reboot ->
               Answer([d EXCEPT !.ctRAM = [i \in 1..Len(d.ctRAM) |-> 0]],
                      0, <<>>)
          [] cmd = clear ->
               IF option # ClearMultiRotationPos THEN Answer(d, 0, <<>>)
               ELSE IF Len(d.ctRAM) < 4 THEN Panicked(d)
               ELSE Answer([d EXCEPT !.ctRAM =
                              Store(d.ctRAM, 1, <<At(d.ctRAM, 1) % 16, 0, 0>>)],
                           0, <<>>)
          [] cmd = reset ->
               IF option = ResetAll /\ id = BroadcastID THEN Quiet(d)
               ELSE Answer([d EXCEPT
                              !.ctRAM = d.defaultConfig.ControlTableRAM,
                              !.id = IF option = ResetAll
                                     THEN d.defaultConfig.ID ELSE @,
                              !.model = IF option \in {ResetAll, ResetExceptID,
                                                       ResetExceptIDBaud}
                                        THEN d.defaultConfig.ModelNumber ELSE @,
                              !.fw = IF option \in {ResetAll, ResetExceptID,
                                                    ResetExceptIDBaud}
                                     THEN d.defaultConfig.FirmwareVer ELSE @],
                           0, <<>>)
          [] cmd = backup ->
               Answer([d EXCEPT
                         !.CTBackupReg = IF option = BackupStore
                                         THEN d.ctRAM ELSE @,
                         !.ctRAM = IF option = BackupRestore
                                   THEN Copy(@, d.CTBackupReg) ELSE @],
                      0, <<>>)
          [] cmd = syncRead ->
               IF \A i \in 5..Len(instParams) : instParams[i] # d.id
               THEN Quiet(d)
               ELSE Fetched(d, addr, l)
          [] cmd = syncWrite ->
               IF syncWriteData(Slice(instParams, 4, Len(instParams)),
                                0, l, d.id).panic
               THEN Panicked(d)
               ELSE Stored(d, addr,
                           syncWriteData(Slice(instParams, 4, Len(instParams)),
                                         0, l, d.id).data)
          [] cmd = bulkRead ->
               IF instLength < 8 THEN Quiet(d)
               ELSE IF bulkReadWindow(d, instParams, 0, <<>>).panic
               THEN Panicked(d)
               ELSE Answer(d, 0, bulkReadWindow(d, instParams, 0, <<>>).params)
          [] cmd = bulkWrite ->
               IF instLength < 8 THEN Quiet(d)
               ELSE IF bulkWriteTable(d.ctRAM, instParams, 0, d.id).panic
               THEN Panicked([d EXCEPT !.ctRAM =
                        bulkWriteTable(d.ctRAM, instParams, 0, d.id).table])
               ELSE Answer([d EXCEPT !.ctRAM =
                        bulkWriteTable(d.ctRAM, instParams, 0, d.id).table],
                           0, <<>>)
          [] cmd \in {fastSyncRead, fastBulkRead} -> Panicked(d)
          [] OTHER -> Answer(d, 2, <<>>)

\* the end of MockDevice.Write: the status packet is put into the buffer of
\* the device unless the packet was for the broadcast id and the
\* instruction is none of ping, syncRead, bulkRead
mockReply(r, id, cmd) ==
    [dev |-> r.dev,
     out |-> IF ~r.silent /\ (id # BroadcastID
                              \/ cmd \in {ping, syncRead, bulkRead})
             THEN mockStatus(id, r.errByte, r.params)
             ELSE <<>>,
     panic |-> r.panic]

\* MockDevice.Write: the device is handed the packet p
mockWrite(d, p) ==
    IF Len(p) < 10 THEN [dev |-> d, out |-> <<>>, panic |-> FALSE]
    ELSE IF At(p, 4) # BroadcastID /\ At(p, 4) # d.id
    THEN [dev |-> d, out |-> <<>>, panic |-> FALSE]
    ELSE mockReply(mockSwitch(d, At(p, 4), At(p, 5) + 256 * At(p, 6), At(p, 7),
                              Slice(p, 8, 8 + At(p, 5) + 256 * At(p, 6) - 3)),
                   At(p, 4), At(p, 7))

\* DeviceChain.Write: every device of the chain, in the order of the chain,
\* is handed the packet p; k devices are still to come
RECURSIVE chainWriteFrom(_, _, _)
chainWriteFrom(devices, k, p) ==
    IF k = 0 THEN [devices |-> devices, outs |-> <<>>, panic |-> FALSE]
    ELSE LET i == Len(devices) + 1 - k
         IN  CHOOSE r \in
                 {IF w.panic
                  THEN [devices |-> [devices EXCEPT ![i] = w.dev],
                        outs |-> <<>>, panic |-> TRUE]
                  ELSE [rest EXCEPT !.outs = <<w.out>> \o @] :
                     w \in {mockWrite(devices[i], p)},
                     rest \in {chainWriteFrom(
                                  [devices EXCEPT
                                     ![i] = mockWrite(devices[i], p).dev],
                                  k - 1, p)}} : TRUE

chainWrite(devices, p) == chainWriteFrom(devices, Len(devices), p)

\* DeviceChain.Read: the buffers of the devices are moved into the buffer of
\* the chain in the order of the chain
chainRead(outs) == Concat(outs)

\* no chain: the transport is what the device side is scripted to send
\* (held: the bytes the transport held when the running method was called;
\* accepts: the number of bytes one rw.Write takes, 0 for all it is given)
NoChain == [devices |-> <<>>, before |-> <<>>, calls |-> 0, held |-> <<>>,
            accepts |-> 0,
            prev |-> [call |-> NoCall, ret |-> [err |-> "none", data |-> <<>>]]]

---------------------------------------------------------------------------
(* The transport.                                                          *)

writeInstruction_Unchecked(id, command, params, wok) ==
    LET pk == packetBytes(id, command, params)
    IN  IF ~wok
        THEN [err |-> "ErrMockWriteError", tx |-> Append(tx, pk.bytes),
              wr |-> "error"]
        ELSE [err |-> "nil", tx |-> Append(tx, pk.bytes), wr |-> "ok"]

\* rw.Write(p) returns (n, nil): "ok" for n = len(p), "short" for less
written(p) ==
    IF chain.accepts > 0 /\ chain.accepts < Len(p) THEN "short" ELSE "ok"

\* writeInstruction: [err, tx, wr], tx the packets handed to rw.Write so far
\* and wr what rw.Write returned (wok: it returns no error); the number of
\* bytes rw.Write returns is dropped
writeInstruction(id, command, params, wok) ==
    LET pk == packetBytes(id, command, params)
    IN  IF pk.err # "nil" THEN [err |-> pk.err, tx |-> tx, wr |-> wr]
        ELSE IF ~wok
        THEN [err |-> "ErrMockWriteError", tx |-> Append(tx, pk.bytes),
              wr |-> "error"]
        ELSE [err |-> "nil", tx |-> Append(tx, pk.bytes),
              wr |-> written(pk.bytes)]

\* a handler that empties the transport before it writes
unreadInput_Flushed(held) == <<>>

\* what the transport holds of the bytes it held when the method was called,
\* at the time the method writes: the methods read nothing before they write
unreadInput(held) == held

\* A method is called with the handler idle: c the call, early an error the
\* method returns before it writes ("nil": none), expects whether it goes on
\* to read a status; wok whether rw.Write succeeds; script what the device
\* side sends, at once or (delayed) later.
Invoke(c, early, id, command, params, expects, wok, script, delayed) ==
    LET w == writeInstruction(id, command, params, wok)
    IN  \E cw \in {IF chain.devices # <<>> /\ early = "nil" /\ w.err = "nil"
                    THEN chainWrite(chain.devices, w.tx[Len(w.tx)])
                    ELSE [devices |-> chain.devices, outs |-> <<>>,
                          panic |-> FALSE]} :
        \E sc \in {IF chain.devices # <<>>
                    THEN <<Silence(chainRead(cw.outs))>> ELSE script} :
        /\ pc = "idle"
        /\ call' = c
        /\ dev' = sc
        /\ rx' = IF delayed THEN unreadInput(rx)
                 ELSE unreadInput(rx) \o scriptBytes(sc)
        /\ pending' = IF delayed THEN pending \o scriptBytes(sc) ELSE pending
        /\ tx' = IF early # "nil" THEN tx ELSE w.tx
        /\ wr' = IF early # "nil" THEN wr ELSE w.wr
        /\ chain' = [chain EXCEPT !.devices = cw.devices,
                                  !.before = chain.devices, !.held = rx]
        /\ UNCHANGED <<configured, readTimeout, rd, nreads, consumed, zeros, codec>>
        /\ Set(IF early # "nil" THEN Return(Cur, early, ZeroData(c.m))
               ELSE IF w.err # "nil" THEN Return(Cur, w.err, ZeroData(c.m))
               ELSE IF cw.panic THEN Return(Cur, "panic", ZeroData(c.m))
               ELSE IF expects THEN enterReadStatus(Cur)
               ELSE Return(Cur, "nil", <<>>))

\* the device side puts its next k bytes into the transport
DeviceWrite(k) ==
    /\ pending # <<>>
    /\ k \in 1..Len(pending)
    /\ rx' = rx \o SubSeq(pending, 1, k)
    /\ pending' = SubSeq(pending, k + 1, Len(pending))
    /\ UNCHANGED <<configured, readTimeout, call, tx, wr, rd, nreads, consumed, zeros, dev,
                   codec, chain>>
    /\ UNCHANGED hvars

\* rw.Read returns (1, nil)
ReadByte ==
    /\ pc \in Reading
    /\ rx # <<>>
    /\ rx' = Tail(rx)
    /\ rd' = "byte"
    /\ nreads' = nreads + 1
    /\ consumed' = consumed + 1
    /\ UNCHANGED <<configured, readTimeout, call, tx, wr, pending, zeros, dev, codec, chain>>
    /\ Set(gotByte([Cur EXCEPT !.p0 = Head(rx), !.lastByteAt = now], Head(rx)))

\* a reader that reads no more once its timer has fired, and does not return
ReadEOF_Blocks ==
    /\ pc \in Reading
    /\ rx = <<>>
    /\ ~TimerExpired(Cur)
    /\ rd' = "EOF"
    /\ nreads' = nreads + 1
    /\ UNCHANGED <<configured, readTimeout, call, tx, wr, rx, pending, consumed, zeros, dev,
                   codec, chain>>
    /\ Set([Cur EXCEPT !.now = @ + 1])

\* a handler that sends its instruction again when the deadline has passed
ReadEOF_Retry ==
    /\ pc \in Reading
    /\ rx = <<>>
    /\ rd' = "EOF"
    /\ nreads' = nreads + 1
    /\ tx' = IF TimerExpired(Cur) /\ Len(tx) = 1 THEN Append(tx, tx[1]) ELSE tx
    /\ UNCHANGED <<configured, readTimeout, call, wr, rx, pending, consumed, zeros, dev,
                   codec, chain>>
    /\ Set(IF TimerExpired(Cur) /\ Len(tx) = 1 THEN enterReadStatus(Cur)
           ELSE IF TimerExpired(Cur)
           THEN statusReturned(Cur, [err |-> "ErrReadTimeout", st |-> NoStatus])
           ELSE [Cur EXCEPT !.now = @ + 1])

\* rw.Read returns (0, io.EOF): the timer has fired, or the loop goes on
ReadEOF ==
    /\ pc \in Reading
    /\ rx = <<>>
    /\ rd' = "EOF"
    /\ nreads' = nreads + 1
    /\ UNCHANGED <<configured, readTimeout, call, tx, wr, rx, pending, consumed, zeros, dev,
                   codec, chain>>
    /\ Set(IF TimerExpired(Cur)
           THEN statusReturned(Cur, [err |-> "ErrReadTimeout", st |-> NoStatus])
           ELSE [Cur EXCEPT !.now = @ + 1])

ReadFail_AsTimeout ==
    /\ pc \in Reading
    /\ rd' = "error"
    /\ nreads' = nreads + 1
    /\ UNCHANGED <<configured, readTimeout, call, tx, wr, rx, pending, consumed, zeros, dev,
                   codec, chain>>
    /\ Set(statusReturned(Cur, [err |-> "ErrReadTimeout", st |-> NoStatus]))

\* rw.Read returns (0, err), err not io.EOF
ReadFail ==
    /\ pc \in Reading
    /\ rd' = "error"
    /\ nreads' = nreads + 1
    /\ UNCHANGED <<configured, readTimeout, call, tx, wr, rx, pending, consumed, zeros, dev,
                   codec, chain>>
    /\ Set(statusReturned(Cur, [err |-> "ErrMockReadError", st |-> NoStatus]))

---------------------------------------------------------------------------
(* The handler methods.                                                    *)

Ping(id, wok, script, delayed) ==
    Invoke([NoCall EXCEPT !.m = "Ping", !.id = id],
           "nil", id, ping, <<>>, TRUE, wok, script, delayed)

\* a Read that sends its instruction to the broadcast id like to any other
Read_NoBroadcastCheck(id, addr, length, wok, script, delayed) ==
    Invoke([NoCall EXCEPT !.m = "Read", !.id = id, !.addr = addr,
                          !.length = length],
           "nil", id, read, <<Lo(addr), Hi(addr), Lo(length), Hi(length)>>,
           TRUE, wok, script, delayed)

Read(id, addr, length, wok, script, delayed) ==
    Invoke([NoCall EXCEPT !.m = "Read", !.id = id, !.addr = addr,
                          !.length = length],
           IF id = BroadcastID THEN "ErrNoStatusOnBroadcast" ELSE "nil",
           id, read, <<Lo(addr), Hi(addr), Lo(length), Hi(length)>>,
           TRUE, wok, script, delayed)

\* a Write that waits for a status whatever the id
Write_AlwaysReads(id, addr, data, wok, script, delayed) ==
    Invoke([NoCall EXCEPT !.m = "Write", !.id = id, !.addr = addr,
                          !.data = data],
           "nil", id, write, <<Lo(addr), Hi(addr)>> \o data,
           TRUE, wok, script, delayed)

Write(id, addr, data, wok, script, delayed) ==
    Invoke([NoCall EXCEPT !.m = "Write", !.id = id, !.addr = addr,
                          !.data = data],
           "nil", id, write, <<Lo(addr), Hi(addr)>> \o data,
           id # BroadcastID, wok, script, delayed)

RegWrite(id, addr, data, wok, script, delayed) ==
    Invoke([NoCall EXCEPT !.m = "RegWrite", !.id = id, !.addr = addr,
                          !.data = data],
           "nil", id, regWrite, <<Lo(addr), Hi(addr)>> \o data,
           id # BroadcastID, wok, script, delayed)

Action(id, wok, script, delayed) ==
    Invoke([NoCall EXCEPT !.m = "Action", !.id = id],
           "nil", id, action, <<>>, id # BroadcastID, wok, script, delayed)

Reboot(id, wok, script, delayed) ==
    Invoke([NoCall EXCEPT !.m = "Reboot", !.id = id],
           "nil", id, reboot, <<>>, id # BroadcastID, wok, script, delayed)

FactoryReset(id, option, wok, script, delayed) ==
    Invoke([NoCall EXCEPT !.m = "FactoryReset", !.id = id, !.option = option],
           "nil", id, reset, <<option>>, id # BroadcastID, wok, script, delayed)

Clear_BackupMagic(id, option, wok, script, delayed) ==
    Invoke([NoCall EXCEPT !.m = "Clear", !.id = id, !.option = option],
           "nil", id, clear, <<option, 67, 84, 82, 76>>,
           id # BroadcastID, wok, script, delayed)

Clear(id, option, wok, script, delayed) ==
    Invoke([NoCall EXCEPT !.m = "Clear", !.id = id, !.option = option],
           "nil", id, clear, <<option, 68, 88, 76, 34>>,
           id # BroadcastID, wok, script, delayed)

ControlTableBackup(id, option, wok, script, delayed) ==
    Invoke([NoCall EXCEPT !.m = "ControlTableBackup", !.id = id,
                          !.option = option],
           "nil", id, backup, <<option, 67, 84, 82, 76>>,
           id # BroadcastID, wok, script, delayed)

SyncRead(ids, addr, length, wok, script, delayed) ==
    Invoke([NoCall EXCEPT !.m = "SyncRead", !.id = BroadcastID, !.ids = ids,
                          !.addr = addr, !.length = length],
           "nil", BroadcastID, syncRead,
           <<Lo(addr), Hi(addr), Lo(length), Hi(length)>> \o ids,
           Len(ids) > 0, wok, script, delayed)

SyncWrite(addr, length, data, wok, script, delayed) ==
    Invoke([NoCall EXCEPT !.m = "SyncWrite", !.id = BroadcastID,
                          !.addr = addr, !.length = length, !.data = data],
           "nil", BroadcastID, syncWrite,
           <<Lo(addr), Hi(addr), Lo(length), Hi(length)>> \o data,
           FALSE, wok, script, delayed)

\* the parameters of BulkRead: id, addr and length of every descriptor
bulkReadParams(descs) ==
    Concat([i \in 1..Len(descs) |->
              <<descs[i].ID, Lo(descs[i].Addr), Hi(descs[i].Addr),
                Lo(descs[i].Length), Hi(descs[i].Length)>>])

BulkRead(descs, wok, script, delayed) ==
    Invoke([NoCall EXCEPT !.m = "BulkRead", !.id = BroadcastID,
                          !.descs = descs],
           "nil", BroadcastID, bulkRead, bulkReadParams(descs),
           Len(descs) > 0, wok, script, delayed)

bulkWriteParams_NoLength(descs) ==
    Concat([i \in 1..Len(descs) |->
              <<descs[i].ID, Lo(descs[i].Addr), Hi(descs[i].Addr)>>
              \o descs[i].Data])

\* the parameters of BulkWrite: id, addr, data length and data of every
\* descriptor
bulkWriteParams(descs) ==
    Concat([i \in 1..Len(descs) |->
              <<descs[i].ID, Lo(descs[i].Addr), Hi(descs[i].Addr),
                Lo(Len(descs[i].Data)), Hi(Len(descs[i].Data))>>
              \o descs[i].Data])

BulkWrite(descs, wok, script, delayed) ==
    Invoke([NoCall EXCEPT !.m = "BulkWrite", !.id = BroadcastID,
                          !.descs = descs],
           "nil", BroadcastID, bulkWrite, bulkWriteParams(descs),
           FALSE, wok, script, delayed)

FastSyncRead(ids, addr, length, wok, script, delayed) ==
    Invoke([NoCall EXCEPT !.m = "FastSyncRead", !.id = BroadcastID,
                          !.ids = ids, !.addr = addr, !.length = length],
           IF Len(ids) < 1
           THEN "fast sync read requires at least one device ID" ELSE "nil",
           BroadcastID, fastSyncRead,
           <<Lo(addr), Hi(addr), Lo(length), Hi(length)>> \o ids,
           TRUE, wok, script, delayed)

\* FastBulkRead: Handler has no such method (the source has the start of one
\* as a comment), so a program that calls it does not build: nothing is
\* written, nothing is read and no result is returned
FastBulkRead(descs, wok, script, delayed) ==
    Invoke([NoCall EXCEPT !.m = "FastBulkRead", !.id = BroadcastID,
                          !.descs = descs],
           "undefined", BroadcastID, fastBulkRead, bulkReadParams(descs),
           TRUE, wok, script, delayed)

---------------------------------------------------------------------------
(* The inputs the methods are called with and the replies of the device.   *)

IDs == {1, BroadcastID, 253, 255}
Addrs == {258}
Lengths == 0..MaxLength
Datas == {<<>>, <<7>>}
ResetOptions == {255, 1, 2}
ClearOptions == {1}
BackupOptions == {1, 2}
ErrBytes == {0, 7, 128}

ParamBytes == <<6, 4, 38, 1, 9, 3, 5, 8>>

Params ==
    {SubSeq(ParamBytes, 1, k) : k \in 0..MaxParams}
        \cup {<<header1, header2, header3>>}

\* what one device may reply to one instruction: nothing, or one status,
\* possibly after a byte of line noise
Replies == {Reply(pre, 1, e, ps) : pre \in {<<>>, <<header1>>},
                                   e \in ErrBytes, ps \in Params}

Scripts == {<<>>} \cup {<<r>> : r \in Replies}

\* what the devices addressed by one SyncRead or BulkRead may reply
MultiReplies ==
    {Reply(<<>>, 1, 0, <<6>>), Reply(<<>>, 2, 0, <<9>>),
     Reply(<<>>, 1, 0, <<6, 4>>), Reply(<<>>, 1, 7, <<6>>)}

MultiScripts(n) == SeqsUpTo(MultiReplies, n)

\* the ids 1..n, the descriptors of the devices 1..n
IdLists == {[i \in 1..n |-> i] : n \in 0..MaxIds}

BulkReadDescs ==
    {[i \in 1..n |-> [ID |-> i, Addr |-> 256 + i, Length |-> i % 3]] :
        n \in 0..MaxIds}

BulkWriteDescs ==
    {[i \in 1..n |-> [ID |-> i, Addr |-> 256 + i,
                      Data |-> SubSeq(ParamBytes, 1, i - 1)]] :
        n \in 0..MaxIds}

---------------------------------------------------------------------------
(* The handler as constructed, before any call.                            *)

\* no codec function applied yet
NoCodec == [op |-> "none", in |-> <<>>, mid |-> <<>>, out |-> <<>>]

Idle ==
    [pc |-> "idle", now |-> 0, timerAt |-> 0, lastByteAt |-> 0,
     packet |-> <<>>, buf |-> <<>>, want |-> 0, p0 |-> 0,
     result |-> NoResult, nstatus |-> 0, responses |-> <<>>,
     ret |-> [err |-> "none", data |-> <<>>]]

\* NewHandler was called with a read timeout of the set T, over the chain c
\* of simulated devices or (NoChain) over a scripted transport
ConstructedOver(T, c) ==
    /\ configured \in T
    /\ readTimeout = NewHandler(configured)
    /\ call = NoCall
    /\ tx = <<>> /\ wr = "none" /\ rx = <<>> /\ pending = <<>> /\ dev = <<>>
    /\ rd = "none" /\ nreads = 0 /\ consumed = 0 /\ zeros = 0
    /\ pc = Idle.pc /\ now = Idle.now /\ timerAt = Idle.timerAt
    /\ lastByteAt = Idle.lastByteAt /\ packet = Idle.packet /\ buf = Idle.buf
    /\ want = Idle.want /\ p0 = Idle.p0 /\ result = Idle.result
    /\ nstatus = Idle.nstatus /\ responses = Idle.responses /\ ret = Idle.ret
    /\ codec = NoCodec
    /\ chain = c

Constructed(T) == ConstructedOver(T, NoChain)

Init == Constructed(1..MaxTimeout)

\* the device side puts all it has to send into the transport at once
DeviceBurst == DeviceWrite(Len(pending))

\* a method is called only when none is running
Called == pc = "idle"

Next ==
    \/ Called /\ \E id \in IDs, wok, late \in BOOLEAN, sc \in Scripts :
          Ping(id, wok, sc, late)
    \/ Called /\ \E id \in IDs, a \in Addrs, n \in Lengths,
                    wok, late \in BOOLEAN, sc \in Scripts :
          Read(id, a, n, wok, sc, late)
    \/ Called /\ \E id \in IDs, a \in Addrs, d \in Datas,
                    wok, late \in BOOLEAN, sc \in Scripts :
          Write(id, a, d, wok, sc, late)
    \/ Called /\ \E id \in IDs, a \in Addrs, d \in Datas,
                    wok, late \in BOOLEAN, sc \in Scripts :
          RegWrite(id, a, d, wok, sc, late)
    \/ Called /\ \E id \in IDs, wok, late \in BOOLEAN, sc \in Scripts :
          Action(id, wok, sc, late)
    \/ Called /\ \E id \in IDs, wok, late \in BOOLEAN, sc \in Scripts :
          Reboot(id, wok, sc, late)
    \/ Called /\ \E id \in IDs, o \in ResetOptions, wok, late \in BOOLEAN,
                    sc \in Scripts :
          FactoryReset(id, o, wok, sc, late)
    \/ Called /\ \E id \in IDs, o \in ClearOptions, wok, late \in BOOLEAN,
                    sc \in Scripts :
          Clear(id, o, wok, sc, late)
    \/ Called /\ \E id \in IDs, o \in BackupOptions, wok, late \in BOOLEAN,
                    sc \in Scripts :
          ControlTableBackup(id, o, wok, sc, late)
    \/ Called /\ \E ids \in IdLists, a \in Addrs, n \in Lengths,
                    wok, late \in BOOLEAN :
          \E sc \in MultiScripts(Len(ids) + 1) : SyncRead(ids, a, n, wok, sc, late)
    \/ Called /\ \E a \in Addrs, n \in Lengths, d \in Datas,
                    wok, late \in BOOLEAN, sc \in Scripts :
          SyncWrite(a, n, d, wok, sc, late)
    \/ Called /\ \E ds \in BulkReadDescs, wok, late \in BOOLEAN :
          \E sc \in MultiScripts(Len(ds) + 1) : BulkRead(ds, wok, sc, late)
    \/ Called /\ \E ds \in BulkWriteDescs, wok, late \in BOOLEAN,
                    sc \in Scripts :
          BulkWrite(ds, wok, sc, late)
    \/ Called /\ \E ids \in IdLists, a \in Addrs, n \in Lengths,
                    wok, late \in BOOLEAN, sc \in Scripts :
          FastSyncRead(ids, a, n, wok, sc, late)
    \/ DeviceBurst
    \/ ReadByte
    \/ ReadEOF
    \/ ReadFail

Spec == Init /\ [][Next]_vars

---------------------------------------------------------------------------
(* readStatus alone, on a stream: garbage, a status, and what follows it.  *)

\* readStatus is called with the stream of the script in the transport
readStatus(script) ==
    /\ pc = "idle"
    /\ call' = [NoCall EXCEPT !.m = "readStatus"]
    /\ dev' = script
    /\ rx' = rx \o scriptBytes(script)
    /\ UNCHANGED <<configured, readTimeout, tx, wr, pending, rd, nreads, consumed, zeros,
                   codec, chain>>
    /\ Set(enterReadStatus(Cur))

Prefixes == SeqsUpTo({headerR, header3, header1}, MaxPrefix)

Suffixes == {Silence(<<>>), Silence(<<header1>>), Reply(<<>>, 2, 0, <<>>)}

StatusIDs == {0, 1, 252, BroadcastID}

Streams ==
    {<<Reply(pre, 1, e, ps), suf>> :
        pre \in Prefixes, e \in {0, 7},
        ps \in {<<>>, <<header1, header2, header3>>}, suf \in Suffixes}
    \cup
    {<<Reply(<<>>, id, e, ps)>> :
        id \in StatusIDs, e \in ErrBytes,
        ps \in Params \cup {<<header1, header2, header3, headerR>>}}

NextStream ==
    \/ Called /\ \E sc \in Streams : readStatus(sc)
    \/ ReadByte
    \/ ReadEOF

SpecStream == Init /\ [][NextStream]_vars

---------------------------------------------------------------------------
(* A slow device: its bytes reach the transport in pieces, at any time.    *)

TimedScripts ==
    {<<>>, <<Reply(<<>>, 1, 0, <<6, 4, 38>>)>>, <<Reply(<<header1>>, 1, 0, <<>>)>>,
     <<Reply(<<>>, 1, 7, <<>>)>>}

NextTimed ==
    \/ Called /\ \E sc \in TimedScripts : Ping(1, TRUE, sc, TRUE)
    \/ Called /\ \E sc \in TimedScripts : Write(1, 258, <<7>>, TRUE, sc, TRUE)
    \/ \E k \in 1..Len(pending) : DeviceWrite(k)
    \/ ReadByte
    \/ ReadEOF

SpecTimed == Init /\ [][NextTimed]_vars

---------------------------------------------------------------------------
(* A transport whose Read may return (0, nil).                             *)

\* rw.Read returns (0, nil): the inner loop is left and b[i] = p[0]
ReadZeroNil ==
    /\ pc \in Reading
    /\ zeros < MaxZeroReads
    /\ zeros' = zeros + 1
    /\ rd' = "zero"
    /\ nreads' = nreads + 1
    /\ UNCHANGED <<configured, readTimeout, call, tx, wr, rx, pending, consumed, dev,
                   codec, chain>>
    /\ Set(gotByte(Cur, p0))

NextZero ==
    \/ Called /\ \E sc \in TimedScripts : Ping(1, TRUE, sc, FALSE)
    \/ Called /\ \E sc \in TimedScripts : Write(1, 258, <<7>>, TRUE, sc, FALSE)
    \/ ReadByte
    \/ ReadZeroNil
    \/ ReadEOF

SpecZero == Init /\ [][NextZero]_vars

---------------------------------------------------------------------------
(* A handler made with any read timeout, the zero value among them.        *)

InitAny == Constructed(0..MaxTimeout)

NextAny ==
    \/ Called /\ \E wok, late \in BOOLEAN, sc \in TimedScripts :
          Ping(1, wok, sc, late)
    \/ DeviceBurst
    \/ ReadByte
    \/ ReadEOF
    \/ ReadFail

SpecAny == InitAny /\ [][NextAny]_vars

---------------------------------------------------------------------------
(* FastSyncRead against the device that answers it with one aggregated     *)
(* status.                                                                 *)

MaxFastIds == 3       \* FastSyncRead over up to MaxFastIds ids
MaxFastLength == 5    \* of 0..MaxFastLength bytes each

\* the bytes the device with this id holds at the address read
deviceData(id, length) == [j \in 1..length |-> 16 * id + j]

\* the two bytes that stand for the CRC of one device's part of the status
crcPlaceholder == <<171, 205>>

\* the k-th device's part of the aggregated status
fastRecord(ids, k, length) ==
    (IF k = 1 THEN <<ids[1]>> ELSE crcPlaceholder \o <<0, ids[k]>>)
        \o deviceData(ids[k], length)

\* the parameters of the status that answers FastSyncRead(ids, _, length)
fastSyncReadStatus(ids, length) ==
    Concat([k \in 1..Len(ids) |-> fastRecord(ids, k, length)])

\* a device that answers with a parameter too few
wrongParamCount(ps) ==
    LET cut == IF Len(ps) > 1 THEN SubSeq(ps, 1, Len(ps) - 1) ELSE ps
    IN  IF Len(cut) <= 1 THEN Append(cut, 9) ELSE cut

\* the k-th device's part of the status that answers a fast bulk read
fastBulkRecord(descs, k) ==
    (IF k = 1 THEN <<descs[1].ID>> ELSE crcPlaceholder \o <<0, descs[k].ID>>)
        \o deviceData(descs[k].ID, descs[k].Length)

\* the parameters of the status that answers a fast bulk read
fastBulkReadStatus(descs) ==
    Concat([k \in 1..Len(descs) |-> fastBulkRecord(descs, k)])

FastBulkScripts(descs) ==
    {<<>>, <<Reply(<<>>, BroadcastID, 0, fastBulkReadStatus(descs))>>}

FastIdLists == {[i \in 1..n |-> i] : n \in 0..MaxFastIds}
FastLengths == 0..MaxFastLength

\* nothing, the aggregated status, one with a wrong parameter count (a
\* parameter missing or one more), or a device error without parameters
FastScripts(ids, length) ==
    LET ps == fastSyncReadStatus(ids, length)
    IN  {<<>>, <<Reply(<<>>, BroadcastID, 128, <<>>)>>}
            \cup {<<Reply(<<>>, BroadcastID, 0, q)>> :
                     q \in {ps, wrongParamCount(ps), Append(ps, 0)}}

NextFast ==
    \/ Called /\ \E ids \in FastIdLists, a \in Addrs, n \in FastLengths,
                    wok, late \in BOOLEAN :
          \E sc \in FastScripts(ids, n) : FastSyncRead(ids, a, n, wok, sc, late)
    \/ Called /\ \E ds \in BulkReadDescs \ {<<>>}, wok, late \in BOOLEAN :
          \E sc \in FastBulkScripts(ds) : FastBulkRead(ds, wok, sc, late)
    \/ DeviceBurst
    \/ ReadByte
    \/ ReadEOF
    \/ ReadFail

SpecFast == Init /\ [][NextFast]_vars

---------------------------------------------------------------------------
(* The handler over a chain of simulated devices: calls made one after the *)
(* other, as the tests of the handler make them.                           *)

MaxCalls == 2

\* the devices of the tests
device1 == NewMockDevice(153, 1060, 47, <<50, 20, 240, 233, 169, 124>>)
device2 == NewMockDevice(240, 1060, 47, <<169, 86, 255, 147, 187, 124>>)
device3 == NewMockDevice(27, 1060, 47, <<153, 175, 18, 152, 125, 227>>)

\* NewDeviceChain(d1, d2, d3)
NewDeviceChain == [NoChain EXCEPT !.devices = <<device1, device2, device3>>]

\* the ids of the devices of the chain; the ids read: that of the first
\* device and one no device has
ChainIDs == {153, 240, 27}
ReadIDs == {153, 1}

ChainAddrs == {1, 3}
ChainLengths == {2, 3}
ChainDatas == {<<241, 242>>, <<255, 255, 253>>}

\* lists of distinct ids of devices of the chain: one id, two ids in either
\* order, and the three ids in the order of the chain
ChainIdLists ==
    {<<a>> : a \in ChainIDs}
    \cup {q \in {<<a, b>> : a \in ChainIDs, b \in ChainIDs} : q[1] # q[2]}
    \cup {<<153, 240, 27>>}

InitChain == ConstructedOver({1}, NewDeviceChain)

\* the method has returned and the handler is ready for the next call
Returned ==
    /\ pc = "done" /\ ret.err # "panic"
    /\ chain.calls + 1 < MaxCalls
    /\ chain' = [chain EXCEPT !.calls = @ + 1,
                              !.prev = [call |-> call, ret |-> ret]]
    /\ call' = NoCall
    /\ tx' = <<>> /\ wr' = "none" /\ rd' = "none"
    /\ nreads' = 0 /\ consumed' = 0
    /\ UNCHANGED <<configured, readTimeout, rx, pending, zeros, dev, codec>>
    /\ Set(Idle)

NextChain ==
    \/ Called /\ \E a \in ChainAddrs, d \in ChainDatas :
          Write(153, a, d, TRUE, <<>>, FALSE)
    \/ Called /\ \E a \in ChainAddrs, d \in ChainDatas :
          RegWrite(153, a, d, TRUE, <<>>, FALSE)
    \/ Called /\ Action(153, TRUE, <<>>, FALSE)
    \/ Called /\ \E id \in ReadIDs, a \in ChainAddrs, n \in ChainLengths :
          Read(id, a, n, TRUE, <<>>, FALSE)
    \/ Called /\ \E ids \in ChainIdLists :
          SyncRead(ids, 3, 2, TRUE, <<>>, FALSE)
    \/ Returned
    \/ ReadByte
    \/ ReadEOF

SpecChain == InitChain /\ [][NextChain]_vars

---------------------------------------------------------------------------
(* readStatus on a stream whose header is followed by a length of at most  *)
(* 4.                                                                      *)

\* what follows the length field: nothing, part of a body, a body with a
\* wrong CRC, and the body of the status of device 1 with two more bytes
ShortRests ==
    {<<>>, <<statusCmd>>, <<statusCmd, 0, 0, 0>>,
     <<header1, header2, header3, headerR>>,
     Slice(statusBytes(1, 0, <<>>), 7, 11) \o <<header1, header2>>}

\* garbage, a header with an id and a length field, and what follows them
ShortStreams ==
    {<<Silence(pre),
       Silence(<<header1, header2, header3, headerR, id, n, 0>>),
       Silence(rest)>> :
        pre \in {<<>>, <<header1>>, <<headerR, header1, header2>>},
        id \in {1, header1}, n \in 0..StatusLenMin,
        rest \in ShortRests}
    \cup
    {<<Silence(pre),
       Silence(<<header1, header2, header3, headerR, header1, header2, header3>>),
       Silence(<<headerR>> \o rest)>> :
        pre \in {<<>>, <<header1>>}, rest \in ShortRests}

NextShort ==
    \/ Called /\ \E sc \in ShortStreams : readStatus(sc)
    \/ ReadByte
    \/ ReadEOF

SpecShort == Init /\ [][NextShort]_vars

---------------------------------------------------------------------------
(* Calls made one after the other over a scripted transport: the replies   *)
(* may come at once, late, or not at all, and what a call leaves in the    *)
(* transport is there for the next.                                        *)

SeqAck == Reply(<<>>, 1, 0, <<>>)

SeqPing(id) == Reply(<<>>, id, 0, <<6, 4, 38>>)

SeqData(id, e) == Reply(<<>>, id, e, <<id, 9>>)

SeqDescs == [i \in 1..2 |-> [ID |-> i, Addr |-> 258, Length |-> 2]]

NextSeq ==
    \/ Called /\ \E late \in BOOLEAN : Write(1, 258, <<7>>, TRUE, <<SeqAck>>, late)
    \/ Called /\ Write(1, 258, <<7>>, FALSE, <<>>, FALSE)
    \/ Called /\ Ping(1, TRUE, <<SeqPing(1)>>, TRUE)
    \/ Called /\ Ping(BroadcastID, TRUE, <<SeqPing(1), SeqPing(2)>>, FALSE)
    \/ Called /\ \E e \in {0, 7} :
          SyncRead(<<1, 2>>, 258, 2, TRUE, <<SeqData(1, e), SeqData(2, 0)>>, FALSE)
    \/ Called /\ BulkRead(SeqDescs, TRUE, <<SeqData(2, 0), SeqData(1, 0)>>, FALSE)
    \/ DeviceBurst
    \/ Returned
    \/ ReadByte
    \/ ReadEOF

SpecSeq == Constructed({1}) /\ [][NextSeq]_vars

---------------------------------------------------------------------------
(* A transport whose Write takes only part of what it is given and reports *)
(* no error.                                                               *)

MaxAccept == 2

InitPartial ==
    \E k \in 0..MaxAccept :
        ConstructedOver(1..MaxTimeout, [NoChain EXCEPT !.accepts = k])

NextPartial ==
    \/ Called /\ \E late \in BOOLEAN, sc \in {<<>>, <<SeqPing(1)>>} :
          Ping(1, TRUE, sc, late)
    \/ Called /\ \E id \in {1, BroadcastID}, sc \in {<<>>, <<SeqAck>>} :
          Write(id, 258, <<7>>, TRUE, sc, FALSE)
    \/ DeviceBurst
    \/ ReadByte
    \/ ReadEOF

SpecPartial == InitPartial /\ [][NextPartial]_vars

---------------------------------------------------------------------------
(* A device that sends bytes one at a time, whenever it likes, and at some *)
(* point no more.  The handler goes on running: a read that can be made is *)
(* made, and time passes while the transport is found empty.               *)

MaxNoise == 2

\* garbage without the header pattern, and garbage before a reply
LiveScripts ==
    {<<Silence(g)>> : g \in SeqsUpTo({header1}, MaxNoise)}
    \cup {<<Reply(<<header1>>, 1, 0, <<>>)>>}

NextLive ==
    \/ Called /\ \E sc \in LiveScripts : Ping(1, TRUE, sc, TRUE)
    \/ DeviceWrite(1)
    \/ ReadByte
    \/ ReadEOF

SpecLive ==
    Init /\ [][NextLive]_vars /\ WF_vars(ReadByte) /\ WF_vars(ReadEOF)

---------------------------------------------------------------------------
(* Every method of the handler, called once over the chain of simulated    *)
(* devices.                                                                *)

\* the first device of the chain, or all devices
PolicyIDs == {153, BroadcastID}

\* no data, or two bytes
PolicyDatas == {<<>>, <<241, 242>>}

\* descriptors of the first device, or of the three devices in the order of
\* the chain
PolicyReadDescs ==
    {<<[ID |-> 153, Addr |-> 1, Length |-> 2]>>,
     <<[ID |-> 153, Addr |-> 1, Length |-> 2],
       [ID |-> 240, Addr |-> 1, Length |-> 2],
       [ID |-> 27, Addr |-> 1, Length |-> 2]>>}

NextPolicy ==
    \/ Called /\ Ping(153, TRUE, <<>>, FALSE)
    \/ Called /\ Read(153, 1, 2, TRUE, <<>>, FALSE)
    \/ Called /\ \E id \in PolicyIDs, d \in PolicyDatas :
          Write(id, 1, d, TRUE, <<>>, FALSE)
    \/ Called /\ \E id \in PolicyIDs, d \in PolicyDatas :
          RegWrite(id, 1, d, TRUE, <<>>, FALSE)
    \/ Called /\ \E id \in PolicyIDs : Action(id, TRUE, <<>>, FALSE)
    \/ Called /\ \E id \in PolicyIDs : Reboot(id, TRUE, <<>>, FALSE)
    \/ Called /\ \E id \in PolicyIDs, o \in {ResetAll, ResetExceptID} :
          FactoryReset(id, o, TRUE, <<>>, FALSE)
    \/ Called /\ \E id \in PolicyIDs :
          Clear(id, ClearMultiRotationPos, TRUE, <<>>, FALSE)
    \/ Called /\ \E id \in PolicyIDs :
          ControlTableBackup(id, BackupStore, TRUE, <<>>, FALSE)
    \/ Called /\ \E ids \in ChainIdLists : SyncRead(ids, 3, 2, TRUE, <<>>, FALSE)
    \/ Called /\ SyncWrite(1, 2, <<153, 1, 2, 240, 3, 4>>, TRUE, <<>>, FALSE)
    \/ Called /\ \E ds \in PolicyReadDescs : BulkRead(ds, TRUE, <<>>, FALSE)
    \/ Called /\ BulkWrite(<<[ID |-> 153, Addr |-> 1, Data |-> <<241, 242>>]>>,
                           TRUE, <<>>, FALSE)
    \/ Called /\ FastSyncRead(<<153>>, 1, 2, TRUE, <<>>, FALSE)
    \/ ReadByte
    \/ ReadEOF

SpecPolicy == InitChain /\ [][NextPolicy]_vars

---------------------------------------------------------------------------
(* Flush, of the handler that has it: io.Copy(io.Discard, h.rw).           *)

MaxFlushLen == 3

\* what the transport holds and what reaches it later
FlushBytes == SeqsUpTo({0, header1}, MaxFlushLen)

\* Flush is called with the bytes buffered in the transport, the bytes
\* later still to come
Flush(buffered, later) ==
    /\ pc = "idle"
    /\ call' = [NoCall EXCEPT !.m = "Flush"]
    /\ dev' = <<Silence(buffered \o later)>>
    /\ rx' = rx \o buffered
    /\ pending' = later
    /\ UNCHANGED <<configured, readTimeout, tx, wr, rd, nreads, consumed, zeros,
                   codec, chain>>
    /\ Set([Cur EXCEPT !.pc = "flush"])

\* io.Copy: h.rw.Read returns (k, nil), the bytes are discarded
FlushRead(k) ==
    /\ pc = "flush"
    /\ k \in 1..Len(rx)
    /\ rx' = SubSeq(rx, k + 1, Len(rx))
    /\ rd' = "byte"
    /\ nreads' = nreads + 1
    /\ consumed' = consumed + k
    /\ UNCHANGED <<configured, readTimeout, call, tx, wr, pending, zeros, dev,
                   codec, chain>>
    /\ UNCHANGED hvars

\* a copy that stops at the first read
FlushEOF_FirstRead ==
    /\ pc = "flush"
    /\ nreads > 0 \/ rx = <<>>
    /\ rd' = "EOF"
    /\ nreads' = nreads + 1
    /\ UNCHANGED <<configured, readTimeout, call, tx, wr, rx, pending, consumed,
                   zeros, dev, codec, chain>>
    /\ Set(Return(Cur, "nil", <<>>))

\* io.Copy: h.rw.Read returns (0, io.EOF), Flush returns nil
FlushEOF ==
    /\ pc = "flush"
    /\ rx = <<>>
    /\ rd' = "EOF"
    /\ nreads' = nreads + 1
    /\ UNCHANGED <<configured, readTimeout, call, tx, wr, rx, pending, consumed,
                   zeros, dev, codec, chain>>
    /\ Set(Return(Cur, "nil", <<>>))

\* io.Copy: h.rw.Read returns an error, Flush returns it
FlushFail ==
    /\ pc = "flush"
    /\ rd' = "error"
    /\ nreads' = nreads + 1
    /\ UNCHANGED <<configured, readTimeout, call, tx, wr, rx, pending, consumed,
                   zeros, dev, codec, chain>>
    /\ Set(Return(Cur, "ErrMockReadError", <<>>))

NextFlush ==
    \/ Called /\ \E b \in FlushBytes :
          \E k \in 0..Len(b) :
             Flush(SubSeq(b, 1, k), SubSeq(b, k + 1, Len(b)))
    \/ \E k \in 1..Len(rx) : FlushRead(k)
    \/ FlushEOF
    \/ FlushFail
    \/ pc = "flush" /\ \E k \in 1..Len(pending) : DeviceWrite(k)

SpecFlush == Init /\ [][NextFlush]_vars

---------------------------------------------------------------------------
(* The codec alone: its functions applied to inputs, among them the inputs *)
(* and the expected outputs of the package's own tests.                    *)

MaxStuffLen == 5      \* stuff / unstuff on strings of 0..MaxStuffLen bytes
MaxEncodeParams == 3  \* packetBytes with 0..MaxEncodeParams such bytes

\* the bytes the header and the stuffing are made of
StuffBytes == {header1, header3, headerR}

StuffStrings == SeqsUpTo(StuffBytes, MaxStuffLen)

\* TestInstructionPacketBytes: instruction and expected bytes
InstructionVectors ==
    {[id |-> 1, command |-> ping,
      params |-> <<>>,
      expBytes |-> <<255, 255, 253, 0, 1, 3, 0, 1, 25, 78>>],
     [id |-> 1, command |-> reset,
      params |-> <<1>>,
      expBytes |-> <<255, 255, 253, 0, 1, 4, 0, 6, 1, 161, 230>>],
     [id |-> 35, command |-> read,
      params |-> <<132, 0, 4, 0>>,
      expBytes |-> <<255, 255, 253, 0, 35, 7, 0, 2, 132, 0, 4, 0, 222, 181>>],
     [id |-> BroadcastID, command |-> fastBulkRead,
      params |-> <<3, 132, 0, 4, 0, 7, 124, 0, 2, 0, 4, 146, 0, 1, 0>>,
      expBytes |-> <<255, 255, 253, 0, 254, 18, 0, 154, 3, 132, 0, 4, 0, 7, 124, 0, 2, 0, 4, 146, 0, 1, 0, 218, 45>>]}

\* TestParseStatusPacket: packet bytes, expected error and expected status
StatusVectors ==
    {[packetBytes |-> <<255, 255, 253, 0, 1, 7, 0, 85, 0, 6, 4, 38, 101, 93>>,
      expErr |-> "nil",
      expStatus |-> [id |-> 1, err |-> "nil", params |-> <<6, 4, 38>>]],
     [packetBytes |-> <<255, 255, 253, 0, 166, 8, 0, 85, 0, 166, 0, 0, 0, 165, 175>>,
      expErr |-> "nil",
      expStatus |-> [id |-> 166, err |-> "nil", params |-> <<166, 0, 0, 0>>]],
     [packetBytes |-> <<255, 255, 253, 0, 1, 4, 0, 85, 128, 162, 143>>,
      expErr |-> "nil",
      expStatus |-> [id |-> 1, err |-> "ErrDeviceError", params |-> <<>>]],
     [packetBytes |-> <<255, 255, 253, 0, 1, 4, 0, 85, 1, 164, 140>>,
      expErr |-> "nil",
      expStatus |-> [id |-> 1, err |-> "ErrResultError", params |-> <<>>]],
     [packetBytes |-> <<255, 255, 253, 0, 1, 4, 0, 85, 2, 174, 140>>,
      expErr |-> "nil",
      expStatus |-> [id |-> 1, err |-> "ErrInstructionError", params |-> <<>>]],
     [packetBytes |-> <<255, 255, 253, 0, 1, 4, 0, 85, 3, 171, 12>>,
      expErr |-> "nil",
      expStatus |-> [id |-> 1, err |-> "ErrDeviceCRCError", params |-> <<>>]],
     [packetBytes |-> <<255, 255, 253, 0, 1, 4, 0, 85, 4, 186, 140>>,
      expErr |-> "nil",
      expStatus |-> [id |-> 1, err |-> "ErrDataRangeError", params |-> <<>>]],
     [packetBytes |-> <<255, 255, 253, 0, 1, 4, 0, 85, 5, 191, 12>>,
      expErr |-> "nil",
      expStatus |-> [id |-> 1, err |-> "ErrDataLengthError", params |-> <<>>]],
     [packetBytes |-> <<255, 255, 253, 0, 1, 4, 0, 85, 6, 181, 12>>,
      expErr |-> "nil",
      expStatus |-> [id |-> 1, err |-> "ErrDataLimitError", params |-> <<>>]],
     [packetBytes |-> <<255, 255, 253, 0, 1, 4, 0, 85, 7, 176, 140>>,
      expErr |-> "nil",
      expStatus |-> [id |-> 1, err |-> "ErrAccessError", params |-> <<>>]],
     [packetBytes |-> <<255, 255, 253, 0, 255, 1, 0, 85, 0>>,
      expErr |-> "ErrTruncatedStatus",
      expStatus |-> NoStatus],
     [packetBytes |-> <<255, 255, 253, 0, 1, 7, 0, 5, 0, 6, 4, 38, 101, 93>>,
      expErr |-> "ErrMalformedStatus",
      expStatus |-> NoStatus],
     [packetBytes |-> <<255, 255, 253, 0, 1, 8, 1, 85, 0, 6, 4, 38, 101, 93>>,
      expErr |-> "ErrInvalidStatusLength",
      expStatus |-> NoStatus],
     [packetBytes |-> <<255, 255, 253, 0, 1, 7, 0, 85, 0, 6, 4, 38, 164, 143>>,
      expErr |-> "ErrStatusCRCInvalid",
      expStatus |-> NoStatus]}

\* the instructions encoded: those of the test, and ids valid and invalid
\* with parameters that do and do not need stuffing
EncodeIDs == {0, 1, 252, BroadcastID, 253, 255}
EncodeCommands == {ping, write}
EncodeParams == SeqsUpTo(StuffBytes, MaxEncodeParams)

Instructions ==
    {[id |-> v.id, command |-> v.command, params |-> v.params] :
        v \in InstructionVectors}
    \cup {[id |-> id, command |-> c, params |-> ps] :
             id \in EncodeIDs, c \in EncodeCommands, ps \in EncodeParams}

\* the packet p cut to its first k bytes
Cut(p, k) == SubSeq(p, 1, k)

\* the packet p with the byte at offset i replaced by b
Change(p, i, b) == [p EXCEPT ![i + 1] = b]

\* the packet p with its last two bytes replaced by the CRC of the others
Recrc(p) ==
    LET crc == crc16(Slice(p, 0, Len(p) - 2))
    IN  Slice(p, 0, Len(p) - 2) \o <<Lo(crc), Hi(crc)>>

\* the status packets a device sends without and with a device error
ErrorBytes == 0..7 \cup {128}
StatusParams == {<<>>, <<6, 4, 38>>, <<header1, header2, header3>>}
DeviceStatuses ==
    {statusBytes(id, e, ps) :
        id \in {1, BroadcastID}, e \in ErrorBytes, ps \in StatusParams}

\* defective packets: a status cut short, or with one of the header, the
\* length, the instruction byte, the error byte and the CRC changed, with
\* and without the CRC made to fit, and two such changes
Changed(P) ==
    UNION {{Change(p, i, (At(p, i) + 1) % 256) : i \in {3, 5, 7, 8, Len(p) - 1}} :
              p \in P}
Defective ==
    LET good == {statusBytes(1, 0, ps) : ps \in StatusParams}
        once == Changed(good)
        fit == {Recrc(p) : p \in once}
    IN  UNION {{Cut(p, k) : k \in 0..(Len(p) - 1)} : p \in good}
            \cup once \cup fit \cup Changed(fit)

StatusPackets ==
    {v.packetBytes : v \in StatusVectors} \cup DeviceStatuses \cup Defective

\* instruction.packetBytes is applied to an instruction
EncodeInstruction(inst) ==
    /\ codec.op = "none"
    /\ codec' = [op |-> "packetBytes", in |-> inst, mid |-> <<>>,
                 out |-> packetBytes(inst.id, inst.command, inst.params)]
    /\ UNCHANGED <<tvars, hvars, chain>>

\* stuff is applied to a byte string
Stuff(x) ==
    /\ codec.op = "none"
    /\ codec' = [op |-> "stuff", in |-> x, mid |-> <<>>, out |-> stuff(x)]
    /\ UNCHANGED <<tvars, hvars, chain>>

\* unstuff is applied to what stuff returned
Unstuff ==
    /\ codec.op = "stuff"
    /\ codec' = [op |-> "unstuff", in |-> codec.in, mid |-> codec.out,
                 out |-> unstuff(codec.out)]
    /\ UNCHANGED <<tvars, hvars, chain>>

\* parseStatusPacket is applied to the bytes of a packet
ParseStatus(p) ==
    /\ codec.op = "none"
    /\ codec' = [op |-> "parseStatusPacket", in |-> p, mid |-> <<>>,
                 out |-> parseStatusPacket(p)]
    /\ UNCHANGED <<tvars, hvars, chain>>

NextCodec ==
    \/ \E inst \in Instructions : EncodeInstruction(inst)
    \/ \E x \in StuffStrings : Stuff(x)
    \/ Unstuff
    \/ \E p \in StatusPackets : ParseStatus(p)

SpecCodec == Init /\ [][NextCodec]_vars

---------------------------------------------------------------------------
(* Properties of the status reader (SpecStream).                           *)

\* the header pattern occurs in the bytes
ContainsHeader(bytes) ==
    \E i \in 0..(Len(bytes) - 4) :
        Slice(bytes, i, i + 4) = <<header1, header2, header3, headerR>>

\* what readStatus returns on a transport that holds exactly these bytes and
\* then stays silent
RECURSIVE readStatusOn(_, _)
readStatusOn(s, bytes) ==
    IF s.pc \notin Reading THEN s.result
    ELSE IF bytes = <<>> THEN [err |-> "ErrReadTimeout", st |-> NoStatus]
    ELSE readStatusOn(gotByte([s EXCEPT !.p0 = Head(bytes)], Head(bytes)),
                      Tail(bytes))

\* readStatus has returned on a stream P ++ W ++ suffix
StreamRead == pc = "done" /\ call.m = "readStatus" /\ Len(dev) = 2

\* readStatus has returned on a stream holding W alone
StatusRead == pc = "done" /\ call.m = "readStatus" /\ Len(dev) = 1

\* C1: for a prefix P without the header pattern, a valid status packet W and
\* any suffix, readStatus on P ++ W ++ suffix succeeds and returns the status
\* that readStatus returns on W alone.
C1_ResyncRobust ==
    StreamRead /\ ~ContainsHeader(dev[1].pre) =>
        /\ result.err = "nil"
        /\ result = readStatusOn(enterReadStatus(Idle), itemBytes(
                        [dev[1] EXCEPT !.pre = <<>>]))

\* C1: a status was read behind a full-length prefix ending in a partial
\* header, with another status after it still in the transport
C1_Witness ==
    /\ StreamRead /\ ~ContainsHeader(dev[1].pre)
    /\ Len(dev[1].pre) = MaxPrefix
    /\ Slice(dev[1].pre, MaxPrefix - 3, MaxPrefix) = <<header1, header2, header3>>
    /\ dev[2].some /\ rx = itemBytes(dev[2])
    /\ result.err = "nil" /\ result.st.params = <<header1, header2, header3>>

\* C2: the wire bytes of a status {id, error byte, params}, id in 0..0xFC or
\* 0xFE, assembled by the packet rules, are read back by readStatus as exactly
\* that id, the device error of that error byte and those params, also when
\* the params contain FF FF FD.
C2_StatusRoundTrip ==
    StatusRead =>
        result = [err |-> "nil",
                  st |-> [id |-> dev[1].id,
                          err |-> deviceError(dev[1].errByte),
                          params |-> dev[1].params]]

\* C2: a status with a device error and params holding FF FF FD 00 was read
C2_Witness ==
    /\ StatusRead
    /\ dev[1].id = 252 /\ dev[1].errByte = 128
    /\ dev[1].params = <<header1, header2, header3, headerR>>
    /\ result.st.params = dev[1].params
    /\ consumed = 16

---------------------------------------------------------------------------
(* Properties of the read deadline (SpecTimed, Spec) and of reads that     *)
(* return nothing (SpecZero).                                              *)

\* C3: one deadline governs a whole readStatus call: a read attempt that
\* finds no data once the deadline has elapsed since the call began returns
\* ReadTimeout, so the call is never still reading later than that, however
\* the bytes dribble in.
C3_SingleDeadline == pc \in Reading => now <= readTimeout

\* the method returned ReadTimeout and no data
TimedOut == ret = [err |-> "ErrReadTimeout", data |-> ZeroData(call.m)]

\* C4: the transport never stays silent for longer than the deadline while
\* the call is still reading, wherever in the packet the silence falls, and
\* the call that a silent read attempt ends returns ReadTimeout and no data.
C4_SilenceTimesOut ==
    /\ pc \in Reading => now - lastByteAt <= readTimeout
    /\ pc = "done" /\ rd = "EOF" => TimedOut

\* C4: a Ping timed out inside the body of a status, a full deadline after
\* the last byte it obtained
C4_Witness ==
    /\ pc = "done" /\ call.m = "Ping" /\ TimedOut
    /\ Len(packet) = 7 /\ Len(buf) = 2
    /\ now - lastByteAt = readTimeout
    /\ pending # <<>>

\* C5: ReadTimeout is never returned before a full deadline has elapsed since
\* the first read attempt of readStatus, and a status that becomes available
\* as a whole before that is read successfully.
C5_NoEarlyTimeout ==
    /\ ret.err = "ErrReadTimeout" => now >= readTimeout
    /\ pc = "done" /\ nstatus = 1 /\ consumed > 0 /\ rd # "error" =>
           result.err = "nil"

\* C5: the device stayed silent for less than the deadline, then its status
\* arrived and the Write succeeded
C5_Witness ==
    /\ pc = "done" /\ call.m = "Write" /\ ret.err = "nil"
    /\ now > 0 /\ now < readTimeout
    /\ consumed = Len(scriptBytes(dev))

\* C6: a read that returns zero bytes and no error adds no byte to the header
\* window, to the ID/length bytes or to the body, and does not end the call.
C6_ZeroReadIsNoData ==
    [][zeros' # zeros =>
          packet' = packet /\ buf' = buf /\ pc' = pc /\ ret' = ret]_vars

---------------------------------------------------------------------------
(* Properties of the handler methods (Spec).                               *)

AckMethods ==
    {"Write", "RegWrite", "Action", "Reboot", "FactoryReset", "Clear",
     "ControlTableBackup"}

\* the call running is one that no device answers
Suppressed ==
    \/ call.m \in AckMethods /\ call.id = BroadcastID
    \/ call.m \in {"SyncWrite", "BulkWrite"}

\* nothing was taken out of the transport
TransportUntouched == nreads = 0 /\ rx \o pending = scriptBytes(dev)

\* C7: Write, RegWrite, Action, Reboot, FactoryReset, Clear and
\* ControlTableBackup to the broadcast id, and every SyncWrite and BulkWrite,
\* make no transport read, and return success when the transport write
\* succeeded, whatever the transport holds.
C7_BroadcastSuppression ==
    Suppressed =>
        /\ pc = "done" /\ nstatus = 0 /\ TransportUntouched
        /\ wr = "ok" => ret = [err |-> "nil", data |-> <<>>]

\* C7: a broadcast Write returned success with a status waiting unread
C7_Witness ==
    /\ call.m = "Write" /\ call.id = BroadcastID
    /\ wr = "ok" /\ ret.err = "nil"
    /\ pending = <<>> /\ Len(rx) > 10

\* C8: Read with the broadcast id returns NoStatusOnBroadcast, writes nothing
\* and reads nothing.
C8_ReadBroadcastRejected ==
    call.m = "Read" /\ call.id = BroadcastID =>
        /\ pc = "done"
        /\ ret = [err |-> "ErrNoStatusOnBroadcast", data |-> <<>>]
        /\ tx = <<>> /\ wr = "none" /\ nstatus = 0 /\ TransportUntouched

\* C8: Read was called with the broadcast id on a transport holding a status
C8_Witness ==
    /\ call.m = "Read" /\ call.id = BroadcastID /\ pc = "done"
    /\ Len(rx) > 10 /\ tx = <<>>

\* C9: after a status parsed without device error, Ping succeeds exactly
\* when the status has 3 parameter bytes and Read exactly when it has the
\* length asked for, returning those bytes; any other count gives
\* UnexpectedParamCount and no data.
C9_ParamCount ==
    pc = "done" /\ result.err = "nil" /\ result.st.err = "nil" =>
        /\ call.m = "Ping" =>
              IF Len(result.st.params) = 3 THEN ret.err = "nil"
              ELSE ret = [err |-> "ErrUnexpectedParamCount", data |-> NoPing]
        /\ call.m = "Read" =>
              IF Len(result.st.params) = call.length
              THEN ret = [err |-> "nil", data |-> result.st.params]
              ELSE ret = [err |-> "ErrUnexpectedParamCount", data |-> <<>>]

\* C9: a Read got more parameter bytes than it asked for
C9_Witness ==
    /\ pc = "done" /\ call.m = "Read"
    /\ result.err = "nil" /\ result.st.err = "nil"
    /\ Len(result.st.params) > call.length /\ call.length > 0
    /\ ret.err = "ErrUnexpectedParamCount"

\* C10: in every method that reads a status, a parsed status that carries a
\* device error ends the call with that device error and no data, whatever
\* its parameter count, and no status is read after it.
C10_DeviceErrorShortCircuit ==
    result.err = "nil" /\ result.st.err # "nil" =>
        /\ pc = "done"
        /\ ret = [err |-> result.st.err, data |-> ZeroData(call.m)]

\* C10: the first of two SyncRead replies carried a device error and a wrong
\* parameter count; the second reply is still in the transport
C10_Witness ==
    /\ call.m = "SyncRead" /\ Len(call.ids) = 2 /\ nstatus = 1
    /\ result.err = "nil" /\ result.st.err = "ErrAccessError"
    /\ Len(result.st.params) # call.length
    /\ Len(dev) = 2 /\ rx = itemBytes(dev[2])
    /\ ret.err = "ErrAccessError"

---------------------------------------------------------------------------
(* Properties of the reads that collect several replies (Spec).            *)

MultiReads == {"SyncRead", "BulkRead"}

\* the number of replies the running SyncRead or BulkRead asks for
Asked == IF call.m = "SyncRead" THEN Len(call.ids) ELSE Len(call.descs)

\* the parameter count the running SyncRead or BulkRead wants of reply i
Wanted(i) == IF call.m = "SyncRead" THEN call.length ELSE call.descs[i].Length

\* C11: a successful SyncRead over n ids, or BulkRead over n descriptors, has
\* taken exactly n status packets out of the transport and returns n
\* elements, the i-th being the parameter bytes of the i-th status taken and
\* having the length asked for; a parsed reply without device error and of
\* another length ends the call with UnexpectedParamCount.
C11_MultiReply ==
    pc = "done" /\ call.m \in MultiReads =>
        /\ ret.err = "nil" =>
              /\ nstatus = Asked /\ Len(ret.data) = Asked
              /\ Len(dev) >= Asked
              /\ consumed = Len(scriptBytes(SubSeq(dev, 1, Asked)))
              /\ \A i \in 1..Asked :
                    /\ ret.data[i] = dev[i].params
                    /\ Len(ret.data[i]) = Wanted(i)
        /\ /\ result.err = "nil" /\ result.st.err = "nil"
           /\ Len(result.st.params) # Wanted(nstatus)
           => ret = [err |-> "ErrUnexpectedParamCount", data |-> <<>>]

\* C11: a BulkRead over two descriptors of different lengths returned two
\* different replies, leaving a third status in the transport
C11_Witness ==
    /\ pc = "done" /\ call.m = "BulkRead" /\ Asked = 2 /\ ret.err = "nil"
    /\ Len(ret.data[1]) = 1 /\ Len(ret.data[2]) = 2
    /\ Len(dev) = 3 /\ rx = itemBytes(dev[3])


---------------------------------------------------------------------------
(* Properties of FastSyncRead (SpecFast).                                  *)

\* FastSyncRead has returned after reading a status without a device error
FastStatusRead ==
    /\ pc = "done" /\ call.m = "FastSyncRead" /\ Len(call.ids) >= 1
    /\ result.err = "nil" /\ result.st.err = "nil"

\* n*len + (n-1)*4 + 1 for the call made
FastCount == Len(call.ids) * call.length + (Len(call.ids) - 1) * 4 + 1

\* C12: FastSyncRead over n >= 1 ids with length len accepts the one
\* aggregated status only if its parameter count is n*len + (n-1)*4 + 1:
\* with any other count it returns ErrUnexpectedParamCount and no data, and
\* it returns without error only with that count.
C12_FastSyncReadCount ==
    /\ FastStatusRead /\ Len(result.st.params) # FastCount
          => ret = [err |-> "ErrUnexpectedParamCount", data |-> <<>>]
    /\ pc = "done" /\ call.m = "FastSyncRead" /\ ret.err = "nil"
          => Len(result.st.params) = FastCount

C12_Witness ==
    /\ FastStatusRead /\ Len(call.ids) = 3 /\ call.length = 4
    /\ Len(result.st.params) = FastCount - 1
    /\ ret.err = "ErrUnexpectedParamCount"

\* C13: given the aggregated status laid out as [id, data(len)] and then
\* [2 CRC placeholder bytes, 0, id, data(len)] for each further device,
\* FastSyncRead returns n slices of len bytes each, the i-th being the data
\* of the i-th device.
C13_FastSyncReadExtraction ==
    /\ FastStatusRead
    /\ result.st.params = fastSyncReadStatus(call.ids, call.length)
    => /\ ret.err = "nil"
       /\ ret.data = [i \in 1..Len(call.ids) |->
                        deviceData(call.ids[i], call.length)]


\* C14: FastSyncRead called with no ids returns ErrMinOneIDRequired, having
\* written nothing to the transport and read nothing from it.
C14_FastSyncReadNoIds ==
    pc = "done" /\ call.m = "FastSyncRead" /\ Len(call.ids) = 0
        => /\ ret.err = "ErrMinOneIDRequired"
           /\ tx = <<>> /\ wr = "none" /\ nreads = 0


\* C15: FastBulkRead(descriptors) sends one fast bulk read instruction to
\* the broadcast id with the parameters of BulkRead and, the write having
\* succeeded and the devices having answered with one aggregated status,
\* returns one slice per descriptor, the i-th of descriptors[i].Length bytes.
C15_FastBulkRead ==
    pc = "done" /\ call.m = "FastBulkRead" =>
        /\ tx = <<packetBytes(BroadcastID, fastBulkRead,
                              bulkReadParams(call.descs)).bytes>>
        /\ /\ wr = "ok"
           /\ dev = <<Reply(<<>>, BroadcastID, 0,
                            fastBulkReadStatus(call.descs))>>
           => /\ ret.err = "nil"
              /\ Len(ret.data) = Len(call.descs)
              /\ \A i \in 1..Len(call.descs) :
                    Len(ret.data[i]) = call.descs[i].Length


---------------------------------------------------------------------------
(* Properties of the packet encoding.                                      *)

\* the methods that take the id of one device
IdMethods == AckMethods \cup {"Ping", "Read"}

\* C16: no instruction is encoded for the ids 0xFD and 0xFF (ErrInvalidID),
\* and a method called with one of them returns ErrInvalidID with nothing
\* written to the transport and nothing read from it.
C16_InvalidIDRejected ==
    call.m \in IdMethods /\ call.id \in {253, 255} =>
        /\ \A ps \in Params : packetBytes(call.id, ping, ps).err = "ErrInvalidID"
        /\ pc = "done"
        /\ ret = [err |-> "ErrInvalidID", data |-> ZeroData(call.m)]
        /\ tx = <<>> /\ wr = "none" /\ TransportUntouched

\* C16: Write was called with the id 0xFD on a transport holding a status
C16_Witness ==
    /\ call.m = "Write" /\ call.id = 253 /\ pc = "done"
    /\ Len(rx) > 10 /\ tx = <<>> /\ ret.err = "ErrInvalidID"


\* the little-endian 16-bit value at offset i
Uint16At(b, i) == At(b, i) + 256 * At(b, i + 1)

\* C17: for a valid id, packetBytes returns FF FF FD 00, the id, LEN as two
\* little-endian bytes with LEN = 3 + |stuffed params|, the instruction
\* byte, the stuffed params and the CRC-16 of all those bytes, little-endian:
\* 10 + |stuffed params| bytes; the instructions of the package's test are
\* encoded to the bytes the test expects.
C17_EncoderShape ==
    codec.op = "packetBytes" /\ codec.in.id \notin {253, 255} =>
        LET b == codec.out.bytes
            n == Len(b)
            sp == stuff(codec.in.params)
        IN  /\ codec.out.err = "nil"
            /\ n = 10 + Len(sp)
            /\ \A i \in 1..n : b[i] \in Byte
            /\ Slice(b, 0, 4) = <<255, 255, 253, 0>>
            /\ At(b, 4) = codec.in.id
            /\ Uint16At(b, 5) = 3 + Len(sp)
            /\ At(b, 7) = codec.in.command
            /\ Slice(b, 8, n - 2) = sp
            /\ Uint16At(b, n - 2) = crc16(Slice(b, 0, n - 2))
            /\ \A v \in InstructionVectors :
                  /\ v.id = codec.in.id /\ v.command = codec.in.command
                  /\ v.params = codec.in.params
                  => b = v.expBytes

\* C17: an instruction whose parameters needed stuffing was encoded
C17_Witness ==
    /\ codec.op = "packetBytes" /\ codec.in.id = BroadcastID
    /\ codec.in.params = <<255, 255, 253>>
    /\ Len(codec.out.bytes) = 14

\* the offsets at which FF FF FD starts
Triples(s) == {i \in 0..(Len(s) - 3) : IsTriple(s, i)}

\* C18: unstuff(stuff(x)) = x; stuff adds one FD after every FF FF FD of x
\* and nothing else, so that every FF FF FD of its output is followed by FD.
C18_StuffRoundTrip ==
    codec.op = "unstuff" =>
        /\ codec.out = codec.in
        /\ Len(codec.mid) = Len(codec.in) + Cardinality(Triples(codec.in))
        /\ \A i \in Triples(codec.mid) :
              i + 3 < Len(codec.mid) /\ At(codec.mid, i + 3) = 253

\* C18: the round trip of a string with an overlapping FF run that already
\* holds FF FF FD FD
C18_Witness ==
    /\ codec.op = "unstuff"
    /\ codec.in = <<255, 255, 255, 253, 253>>
    /\ codec.mid = <<255, 255, 255, 253, 253, 253>>

\* the defects of the packet parsed
Truncated == Len(codec.in) < 11
WrongInstruction == At(codec.in, 7) # 85
WrongHeader == Slice(codec.in, 0, 4) # <<255, 255, 253, 0>>
WrongLength == Uint16At(codec.in, 5) + 7 # Len(codec.in)
WrongCRC ==
    Uint16At(codec.in, Len(codec.in) - 2)
        # crc16(Slice(codec.in, 0, Len(codec.in) - 2))

\* C19: parseStatusPacket returns no status for a defective packet: one
\* shorter than the shortest status gives ErrTruncatedStatus, one whose byte
\* at offset 7 is not 0x55 ErrMalformedStatus, one whose LEN + 7 is not its
\* number of bytes ErrInvalidStatusLength, and one that passes these and
\* whose last two bytes are not the CRC-16 of the others, little-endian,
\* ErrStatusCRCInvalid; a wrong CRC beside one of the first three defects
\* does not change their error.  The packets of the package's test give the
\* errors the test expects.
C19_ParseErrors ==
    codec.op = "parseStatusPacket" =>
        /\ Truncated => codec.out.perr = "ErrTruncatedStatus"
        /\ ~Truncated /\ WrongInstruction
              => codec.out.perr = "ErrMalformedStatus"
        /\ ~Truncated /\ ~WrongInstruction /\ ~WrongHeader /\ WrongLength
              => codec.out.perr = "ErrInvalidStatusLength"
        /\ (~Truncated /\ ~WrongInstruction /\ ~WrongHeader
               /\ ~WrongLength /\ WrongCRC)
              => codec.out.perr = "ErrStatusCRCInvalid"
        /\ codec.out.perr = "nil"
              => /\ ~Truncated /\ ~WrongInstruction /\ ~WrongLength
                 /\ ~WrongCRC
        /\ codec.out.perr # "nil" => codec.out.st = NoStatus
        /\ \A v \in StatusVectors :
              v.packetBytes = codec.in /\ v.expErr # "nil"
                  => codec.out.perr = v.expErr

\* C19: a packet with a wrong length field and a CRC that does not fit it
C19_Witness ==
    /\ codec.op = "parseStatusPacket"
    /\ ~Truncated /\ ~WrongInstruction /\ WrongLength /\ WrongCRC
    /\ codec.out.perr = "ErrInvalidStatusLength"

\* C20: a status with a valid CRC and error byte 0 parses to no device
\* error, with error byte 1..7 to ErrResultError, ErrInstructionError,
\* ErrDeviceCRCError, ErrDataRangeError, ErrDataLengthError,
\* ErrDataLimitError, ErrAccessError, and with error byte 0x80 to
\* ErrDeviceError; parsing succeeds and the status has the id and the
\* params.  The packets of the package's test give the statuses it expects.
C20_DeviceErrorDecoding ==
    codec.op = "parseStatusPacket" =>
        /\ \A id \in {1, BroadcastID}, e \in 0..7 \cup {128},
                 ps \in StatusParams :
              codec.in = statusBytes(id, e, ps) =>
                  /\ codec.out.perr = "nil"
                  /\ codec.out.st.id = id
                  /\ codec.out.st.params = ps
                  /\ codec.out.st.err =
                        IF e = 0 THEN "nil"
                        ELSE IF e = 128 THEN "ErrDeviceError"
                        ELSE <<"ErrResultError", "ErrInstructionError",
                               "ErrDeviceCRCError", "ErrDataRangeError",
                               "ErrDataLengthError", "ErrDataLimitError",
                               "ErrAccessError">>[e]
        /\ \A v \in StatusVectors :
              v.packetBytes = codec.in /\ v.expErr = "nil"
                  => codec.out = [perr |-> "nil", st |-> v.expStatus]

\* C20: the status with error byte 0x80 and stuffed params was parsed
C20_Witness ==
    /\ codec.op = "parseStatusPacket"
    /\ codec.in = statusBytes(BroadcastID, 128, <<255, 255, 253>>)
    /\ codec.out.st =
          [id |-> BroadcastID, err |-> "ErrDeviceError",
           params |-> <<255, 255, 253>>]


---------------------------------------------------------------------------
(* Properties of the handler methods, continued (Spec).                    *)

\* C21: when the transport write fails the method returns the transport's
\* error and makes no read; when a transport read fails with an error that
\* is not io.EOF the method returns at once with that error, not with
\* ErrReadTimeout, whether or not the deadline has passed.
C21_TransportErrors ==
    /\ wr = "error" =>
          /\ pc = "done" /\ nreads = 0 /\ nstatus = 0
          /\ ret = [err |-> "ErrMockWriteError", data |-> ZeroData(call.m)]
    /\ rd = "error" =>
          /\ pc = "done"
          /\ ret = [err |-> "ErrMockReadError", data |-> ZeroData(call.m)]

\* C21: a read failed in the middle of a status, before the deadline
C21_Witness ==
    /\ rd = "error" /\ call.m = "Ping" /\ pc = "done"
    /\ consumed > 4 /\ rx # <<>> /\ now < readTimeout
    /\ ret.err = "ErrMockReadError"


\* C22: a handler made with a zero read timeout has a read timeout of 20 ms,
\* one made with another value has that value, and it stays so whatever the
\* handler does.
C22_ReadTimeout ==
    /\ configured = 0 => readTimeout = 20
    /\ configured # 0 => readTimeout = configured

\* C22: a Ping of a handler made with the zero value timed out at 20 ms
C22_Witness ==
    /\ configured = 0 /\ pc = "done" /\ call.m = "Ping" /\ TimedOut
    /\ now = 20


\* C23: on a status without device error and with exactly 3 params, Ping
\* returns the id of the status as ID, params[0] + 256 * params[1] as Model
\* and params[2] as Firmware.
C23_PingDecoding ==
    /\ pc = "done" /\ call.m = "Ping"
    /\ result.err = "nil" /\ result.st.err = "nil"
    /\ Len(result.st.params) = 3
    => /\ ret.err = "nil"
       /\ ret.data.ID = result.st.id
       /\ ret.data.Model = result.st.params[1] + 256 * result.st.params[2]
       /\ ret.data.Firmware = result.st.params[3]

\* C23: a Ping of the broadcast id answered by the device 1, model 0x0406,
\* firmware 0x26
C23_Witness ==
    /\ pc = "done" /\ call.m = "Ping" /\ call.id = BroadcastID
    /\ ret = [err |-> "nil", data |-> [ID |-> 1, Model |-> 1030, Firmware |-> 38]]


\* the one packet written: its id, its instruction byte and its parameters
SentID == At(tx[1], 4)
SentCode == At(tx[1], 7)
SentParams == unstuff(Slice(tx[1], 8, Len(tx[1]) - 2))

\* a 16-bit value as two bytes, low byte first
LittleEndian(v) == <<v % 256, v \div 256>>

\* the instruction code and the parameters of a method that takes one id
SingleCode ==
    CASE call.m = "Ping" -> 1
      [] call.m = "Read" -> 2
      [] call.m = "Write" -> 3
      [] call.m = "RegWrite" -> 4
      [] call.m = "Action" -> 5
      [] call.m = "FactoryReset" -> 6
      [] call.m = "Reboot" -> 8
      [] call.m = "Clear" -> 16
      [] call.m = "ControlTableBackup" -> 32

SingleParams ==
    CASE call.m \in {"Ping", "Action", "Reboot"} -> <<>>
      [] call.m = "Read" ->
            LittleEndian(call.addr) \o LittleEndian(call.length)
      [] call.m \in {"Write", "RegWrite"} ->
            LittleEndian(call.addr) \o call.data
      [] call.m = "FactoryReset" -> <<call.option>>
      [] call.m = "Clear" -> <<call.option, 68, 88, 76, 34>>
      [] call.m = "ControlTableBackup" -> <<call.option, 67, 84, 82, 76>>

\* C24: a method that takes one id writes one packet, addressed to that id,
\* with its own instruction code and these parameters: none for Ping,
\* Action and Reboot; addr and length, low byte first, for Read; addr, low
\* byte first, and the data for Write and RegWrite; the option for
\* FactoryReset; the option and 44 58 4C 22 for Clear; the option and
\* 43 54 52 4C for ControlTableBackup.  Nothing is written for an invalid id
\* and for a Read of the broadcast id.
C24_SingleEncoding ==
    call.m \in IdMethods =>
        IF call.id \in {253, 255} \/ (call.m = "Read" /\ call.id = BroadcastID)
        THEN tx = <<>>
        ELSE /\ Len(tx) = 1
             /\ SentID = call.id
             /\ SentCode = SingleCode
             /\ SentParams = SingleParams

\* C24: Clear was called for the device 1
C24_Witness ==
    /\ call.m = "Clear" /\ call.id = 1 /\ Len(tx) = 1
    /\ Slice(tx[1], 4, 13) = <<1, 8, 0, 16, 1, 68, 88, 76, 34>>

GroupMethods == {"SyncRead", "SyncWrite", "BulkRead", "BulkWrite", "FastSyncRead"}

GroupCode ==
    CASE call.m = "SyncRead" -> 130
      [] call.m = "SyncWrite" -> 131
      [] call.m = "FastSyncRead" -> 138
      [] call.m = "BulkRead" -> 146
      [] call.m = "BulkWrite" -> 147

GroupParams ==
    CASE call.m \in {"SyncRead", "FastSyncRead"} ->
            LittleEndian(call.addr) \o LittleEndian(call.length) \o call.ids
      [] call.m = "SyncWrite" ->
            LittleEndian(call.addr) \o LittleEndian(call.length) \o call.data
      [] call.m = "BulkRead" ->
            Concat([i \in 1..Len(call.descs) |->
                      <<call.descs[i].ID>> \o LittleEndian(call.descs[i].Addr)
                          \o LittleEndian(call.descs[i].Length)])
      [] call.m = "BulkWrite" ->
            Concat([i \in 1..Len(call.descs) |->
                      <<call.descs[i].ID>> \o LittleEndian(call.descs[i].Addr)
                          \o LittleEndian(Len(call.descs[i].Data))
                          \o call.descs[i].Data])

\* C25: SyncRead, SyncWrite, BulkRead, BulkWrite and FastSyncRead write one
\* packet, addressed to the broadcast id 0xFE: addr and length, low byte
\* first, then the ids in the order given (SyncRead, FastSyncRead) or the
\* data (SyncWrite); for every descriptor in order the id, addr and length,
\* low byte first (BulkRead), or the id, addr, the length of the data, low
\* byte first, and the data (BulkWrite).  FastSyncRead without ids writes
\* nothing.
C25_GroupEncoding ==
    call.m \in GroupMethods =>
        IF call.m = "FastSyncRead" /\ call.ids = <<>>
        THEN tx = <<>>
        ELSE /\ Len(tx) = 1
             /\ SentID = 254
             /\ SentCode = GroupCode
             /\ SentParams = GroupParams

\* C25: BulkWrite was called with two descriptors, the second with a byte
\* of data
C25_Witness ==
    /\ call.m = "BulkWrite" /\ Len(call.descs) = 2 /\ Len(tx) = 1
    /\ Slice(tx[1], 4, 19) = <<254, 14, 0, 147, 1, 1, 1, 0, 0, 2, 2, 1, 1, 0, 6>>


---------------------------------------------------------------------------
(* Properties of the handler over the simulated devices (SpecChain).       *)

\* the control table of the device id among the devices devs
TableOf(devs, id) ==
    (CHOOSE d \in {devs[i] : i \in 1..Len(devs)} : d.id = id).ctRAM

\* the Write, RegWrite or Action call c left the tables of all devices but
\* id, and of id all bytes outside [addr, addr + n), as they were
OnlyWindowChanged(id, addr, n) ==
    \A k \in 1..Len(chain.devices) :
        IF chain.devices[k].id # id
        THEN chain.devices[k].ctRAM = chain.before[k].ctRAM
        ELSE \A i \in 0..(Len(chain.devices[k].ctRAM) - 1) :
                i < addr \/ i >= addr + n =>
                    At(chain.devices[k].ctRAM, i) = At(chain.before[k].ctRAM, i)

\* the call before the running one was a Write that returned no error
AfterWrite ==
    /\ chain.prev.call.m = "Write" /\ chain.prev.ret.err = "nil"

\* C26: a Write(id, addr, data) within the control table that returns no
\* error changes no byte of the table outside [addr, addr + |data|), and a
\* Read(id, addr, |data|) that follows it returns data.
C26_WriteReadRoundTrip ==
    /\ pc = "done" /\ call.m = "Write" /\ ret.err = "nil"
       /\ Within(TableOf(chain.before, call.id), call.addr, Len(call.data))
       => OnlyWindowChanged(call.id, call.addr, Len(call.data))
    /\ pc = "done" /\ call.m = "Read" /\ AfterWrite
       /\ call.id = chain.prev.call.id /\ call.addr = chain.prev.call.addr
       /\ call.length = Len(chain.prev.call.data)
       => ret = [err |-> "nil", data |-> chain.prev.call.data]


\* the device id among the devices devs
DeviceOf(devs, id) == CHOOSE d \in {devs[i] : i \in 1..Len(devs)} : d.id = id

\* the control tables of the devices devs
Tables(devs) == [k \in 1..Len(devs) |-> devs[k].ctRAM]

\* the devices devs after a Write(id, addr, data)
AfterDirectWrite(devs, id, addr, data) ==
    chainWrite(devs, packetBytes(id, write, LittleEndian(addr) \o data).bytes).devices

\* the call before the running one was a RegWrite that returned no error
AfterRegWrite ==
    /\ chain.prev.call.m = "RegWrite" /\ chain.prev.ret.err = "nil"

\* C27: a RegWrite(id, addr, data) that returns no error leaves the control
\* tables as they were and the device holds addr, low byte first, and data
\* as its pending registration; an Action(id) that follows it and returns
\* no error leaves the control tables as a Write(id, addr, data) would have
\* left them, and the device holds no pending registration.
C27_RegWriteAction ==
    /\ pc = "done" /\ call.m = "RegWrite" /\ ret.err = "nil"
       => /\ Tables(chain.devices) = Tables(chain.before)
          /\ DeviceOf(chain.devices, call.id).regWriteBuf
                = LittleEndian(call.addr) \o call.data
          /\ DeviceOf(chain.devices, call.id).regInstruction
    /\ pc = "done" /\ call.m = "Action" /\ ret.err = "nil" /\ AfterRegWrite
       /\ call.id = chain.prev.call.id
       => /\ Tables(chain.devices)
                = Tables(AfterDirectWrite(chain.before, call.id,
                                          chain.prev.call.addr,
                                          chain.prev.call.data))
          /\ DeviceOf(chain.devices, call.id).regWriteBuf = <<>>
          /\ ~DeviceOf(chain.devices, call.id).regInstruction

\* C28: a SyncRead of distinct ids of devices of the chain, in any order,
\* returns no error and, at position i, the bytes [addr, addr + length) of
\* the control table of the device ids[i].
C28_SyncReadChain ==
    pc = "done" /\ call.m = "SyncRead" =>
        /\ ret.err = "nil"
        /\ ret.data = [i \in 1..Len(call.ids) |->
                          Window(TableOf(chain.devices, call.ids[i]),
                                 call.addr, call.length)]


---------------------------------------------------------------------------
(* Flush (SpecFlush) and the length check of readStatus (SpecShort).       *)

\* C29: Flush writes nothing; when it returns no error, the transport had
\* no more data, holds no byte, and every byte that had reached it was read
\* and discarded.
C29_Flush ==
    call.m = "Flush" =>
        /\ tx = <<>> /\ wr = "none"
        /\ pc = "done" /\ rd = "EOF" => ret.err = "nil"
        /\ pc = "done" /\ ret.err = "nil" =>
              /\ rd = "EOF"
              /\ rx = <<>>
              /\ consumed + Len(pending) = Len(scriptBytes(dev))

\* C29: Flush has returned no error after it discarded three bytes in two
\* reads or more
C29_Witness ==
    /\ call.m = "Flush" /\ pc = "done" /\ ret.err = "nil"
    /\ consumed = 3 /\ nreads >= 3 /\ rx = <<>>

\* the garbage of a short stream and what follows its length field
Garbage == Len(dev[1].pre)
Unread == dev[3].pre

\* C30: when the length field after the header is below 4, readStatus
\* returns ErrInvalidStatusLength having read the garbage, the 4 bytes of
\* the header and the 3 bytes of id and length, one read each, and nothing
\* else: what follows is still in the transport, no read found the
\* transport empty and no time has passed.
C30_ShortLength ==
    pc = "done" /\ call.m = "readStatus" /\ Len(dev) = 3
    /\ At(dev[2].pre, 5) < 4 =>
        /\ ret.err = "ErrInvalidStatusLength"
        /\ consumed = Garbage + 4 + 3
        /\ nreads = consumed
        /\ rx = Unread
        /\ rd = "byte"
        /\ now = 0

\* C30: a length of 3 after three bytes of garbage, four bytes behind
C30_Witness ==
    /\ pc = "done" /\ call.m = "readStatus" /\ Len(dev) = 3
    /\ Garbage = 3 /\ At(dev[2].pre, 5) = 3
    /\ ret.err = "ErrInvalidStatusLength"
    /\ consumed = 10 /\ Len(rx) = 4

---------------------------------------------------------------------------
(* What one readStatus call consumes (SpecShort).                          *)

\* the number of bytes before the first occurrence of the header pattern
FirstHeader(bytes) ==
    CHOOSE g \in 0..(Len(bytes) - 4) :
        /\ Slice(bytes, g, g + 4) = <<header1, header2, header3, headerR>>
        /\ ~ContainsHeader(Slice(bytes, 0, g + 3))

\* the length field behind the first header of the bytes
DeclaredLength(bytes) ==
    At(bytes, FirstHeader(bytes) + 5) + 256 * At(bytes, FirstHeader(bytes) + 6)

\* readStatus has returned what the parser made of an assembled packet
Assembled == pc = "done" /\ call.m = "readStatus" /\ Len(packet) > 7

\* C31: a readStatus call that returns a status, or a parse error after the
\* packet was assembled, has consumed exactly g + 7 + LEN bytes, g the number
\* of bytes before the first header match and LEN the declared length; every
\* byte behind the last CRC byte of the packet is still in the transport.
C31_ExactConsumption ==
    Assembled =>
        LET bytes == scriptBytes(dev)
            used == FirstHeader(bytes) + 7 + DeclaredLength(bytes)
        IN  /\ ContainsHeader(bytes)
            /\ consumed = used
            /\ nreads = used
            /\ Len(packet) = 7 + DeclaredLength(bytes)
            /\ rx = Slice(bytes, used, Len(bytes))

\* C31: the status of device 1 was returned behind three bytes of garbage,
\* and the two bytes behind its CRC are unread
C31_Witness ==
    /\ Assembled /\ ret.err = "nil" /\ result.st.id = 1
    /\ FirstHeader(scriptBytes(dev)) = 3
    /\ consumed = 14 /\ rx = <<header1, header2>>

---------------------------------------------------------------------------
(* The phases of one readStatus call (SpecShort).                          *)

\* the order of the phases: seeking the header, reading id and length,
\* reading the body, returned
Phase(p) ==
    CASE p = "header" -> 1 [] p = "idlen" -> 2 [] p = "body" -> 3
      [] p = "done" -> 4 [] OTHER -> 0

\* a byte was taken from the transport behind the header
ReadBehindHeader == pc \in {"idlen", "body"} /\ consumed' = consumed + 1

\* C32: within one readStatus call the reader goes from seeking the header
\* to reading id and length, to reading the body, to its return, and never
\* back; behind the header every byte read is kept as the next byte of the
\* packet and the number of bytes asked for stays what it was: the header
\* pattern in the id, the length or the body starts no new search and
\* shortens nothing.
C32_PhasesMonotone ==
    [][/\ pc \in Reading => Phase(pc') >= Phase(pc)
       /\ ReadBehindHeader /\ pc' = pc =>
            /\ packet' = packet /\ buf' = Append(buf, Head(rx))
            /\ want' = want
       /\ ReadBehindHeader /\ pc' # pc /\ Len(packet') > Len(packet) =>
            /\ packet' = packet \o Append(buf, Head(rx))
            /\ Len(buf) + 1 = want
       /\ pc # "body" /\ pc' = "body" =>
            pc = "idlen" /\ want' = statusLength(Slice(packet', 4, 7))
       /\ pc \in {"idlen", "body"} /\ pc' \in {"idlen", "body"} =>
            Slice(packet', 0, 4) = Slice(packet, 0, 4)
      ]_vars

\* C32: a packet whose body is FF FF FD 00 was assembled and given to the
\* parser with these bytes in it
C32_Witness ==
    /\ Assembled
    /\ Slice(packet, 7, 11) = <<header1, header2, header3, headerR>>
    /\ Len(packet) = 11 /\ ret.err # "ErrReadTimeout"

\* C32: the bytes FF FF FD 00 were read across the length field and the
\* body, and the reader went on reading the body they declare
C32_Straddle ==
    /\ pc = "body" /\ Slice(packet, 4, 7) = <<header1, header2, header3>>
    /\ buf # <<>> /\ At(buf, 0) = headerR

---------------------------------------------------------------------------
(* Writes and reads of calls made one after the other (SpecSeq).           *)

\* the packet the running call has to send
OwnPacket ==
    IF call.m \in GroupMethods
    THEN packetBytes(BroadcastID, GroupCode, GroupParams).bytes
    ELSE packetBytes(call.id, SingleCode, SingleParams).bytes

\* C33: every call hands at most one packet to the transport, its complete
\* instruction packet, before its first read; it writes nothing after a
\* read or an error, reads only after its write succeeded and reads nothing
\* once it has returned, so that the next call's write comes after all its
\* reads.
C33_HalfDuplex ==
    [][/\ tx' # tx /\ tx' # <<>> =>
            /\ pc = "idle" /\ tx = <<>> /\ nreads = 0
            /\ Len(tx') = 1
       /\ nreads' # nreads /\ nreads' # 0 =>
            /\ pc \in Reading /\ tx' = tx /\ Len(tx) = 1 /\ wr = "ok"
            /\ tx[1] = OwnPacket
       /\ pc = "done" =>
            /\ tx' \in {tx, <<>>} /\ nreads' \in {nreads, 0}
            /\ rx' \in {rx, rx \o pending}
       /\ pc = "done" /\ pc' = "idle" => tx' = <<>> /\ nreads' = 0
      ]_vars

\* C33: the second call has returned ReadTimeout after reads that found the
\* transport empty, having written once
C33_Witness ==
    /\ pc = "done" /\ chain.calls = 1 /\ ret.err = "ErrReadTimeout"
    /\ chain.prev.ret.err = "ErrReadTimeout"
    /\ Len(tx) = 1 /\ nreads > 1

---------------------------------------------------------------------------
(* Writes the transport takes only in part (SpecPartial).                  *)

\* the bytes of the instruction packet the transport has taken
Committed ==
    IF tx = <<>> THEN <<>>
    ELSE IF wr = "short" THEN Slice(tx[1], 0, chain.accepts)
    ELSE IF wr = "ok" THEN tx[1] ELSE <<>>

\* C34: when rw.Write takes fewer bytes than the packet and reports no
\* error, the handler writes the remaining bytes until the transport has
\* the whole packet, or an error, before it starts to read: it never reads
\* after a partial write.
C34_WholePacketWritten ==
    pc \in Reading \/ (pc = "done" /\ ret.err = "nil") =>
        Committed = OwnPacket

---------------------------------------------------------------------------
(* What a call leaves in the transport (SpecSeq).                          *)

\* the bytes begin with a complete status packet the parser accepts
StartsWithStatus(bytes) ==
    /\ Len(bytes) >= 7 + StatusLenMin
    /\ Slice(bytes, 0, 4) = <<header1, header2, header3, headerR>>
    /\ statusLength(Slice(bytes, 4, 7)) >= StatusLenMin
    /\ Len(bytes) >= 7 + statusLength(Slice(bytes, 4, 7))
    /\ parseStatusPacket(
          Slice(bytes, 0, 7 + statusLength(Slice(bytes, 4, 7)))).perr = "nil"

\* the status the transport held when the running method was called
HeldStatus ==
    parseStatusPacket(
        Slice(chain.held, 0, 7 + statusLength(Slice(chain.held, 4, 7)))).st

\* the previous call left the status unread: it returned ReadTimeout, or
\* was a SyncRead that failed, or a Ping of the broadcast id
LeftUnread ==
    /\ chain.calls > 0
    /\ \/ chain.prev.ret.err = "ErrReadTimeout"
       \/ chain.prev.call.m = "SyncRead" /\ chain.prev.ret.err # "nil"
       \/ chain.prev.call.m = "Ping" /\ chain.prev.call.id = BroadcastID

\* C35: a method does not drop what the transport holds before it writes:
\* a complete valid status that the transport holds when a method that
\* expects a reply is called (it came after its own request had returned
\* ReadTimeout, or a failed SyncRead or a Ping of the broadcast id left it
\* unread) is the status that call reads as its reply.
C35_StaleReply ==
    /\ pc \in Reading /\ nreads = 0 =>
          /\ Len(rx) >= Len(chain.held)
          /\ Slice(rx, 0, Len(chain.held)) = chain.held
    /\ pc = "done" /\ nstatus >= 1 /\ StartsWithStatus(chain.held) =>
          /\ nstatus = 1 => result = [err |-> "nil", st |-> HeldStatus]
          /\ call.m = "Write" => ret.err = HeldStatus.err
          /\ call.m = "Ping" /\ ret.err = "nil" =>
                /\ ret.data.ID = HeldStatus.id
                /\ Len(HeldStatus.params) = PingParamCount
          /\ call.m = "SyncRead" /\ nstatus > 1 =>
                /\ HeldStatus.err = "nil"
                /\ Len(HeldStatus.params) = call.length
          /\ call.m = "SyncRead" /\ ret.err = "nil" =>
                ret.data[1] = HeldStatus.params

\* C35: the reply to a Ping came after the Ping had returned ReadTimeout;
\* the Write called next took it for its own reply and returned nil, and
\* the reply to the Write is left in the transport
C35_Witness ==
    /\ pc = "done" /\ call.m = "Write" /\ ret.err = "nil"
    /\ chain.prev.call.m = "Ping" /\ chain.prev.ret.err = "ErrReadTimeout"
    /\ LeftUnread /\ StartsWithStatus(chain.held)
    /\ result.st.params = <<6, 4, 38>>
    /\ rx = itemBytes(SeqAck)

\* C35: the second reply to a Ping of the broadcast id was read by the
\* SyncRead called next as the reply of its first device
C35_AfterBroadcastPing ==
    /\ pc = "done" /\ call.m = "SyncRead"
    /\ chain.prev.call.m = "Ping" /\ chain.prev.call.id = BroadcastID
    /\ chain.prev.ret.err = "nil"
    /\ StartsWithStatus(chain.held) /\ HeldStatus.id = 2
    /\ ret.err = "ErrUnexpectedParamCount"

---------------------------------------------------------------------------
(* The id of a status and the id addressed (SpecSeq).                      *)

\* the statuses of a sequence of complete status packets, in order
RECURSIVE StatusesOf(_)
StatusesOf(bytes) ==
    IF ~StartsWithStatus(bytes) THEN <<>>
    ELSE LET n == 7 + statusLength(Slice(bytes, 4, 7))
         IN  <<parseStatusPacket(Slice(bytes, 0, n)).st>>
                 \o StatusesOf(Slice(bytes, n, Len(bytes)))

\* the statuses the transport holds for a call whose replies come at once:
\* those it held already, then the replies to the call
Offered == StatusesOf(chain.held \o scriptBytes(dev))

\* SyncRead or BulkRead has returned
MultiReturned == pc = "done" /\ call.m \in {"SyncRead", "BulkRead"}

\* the number of statuses SyncRead / BulkRead asks for
Addressed == IF call.m = "SyncRead" THEN Len(call.ids) ELSE Len(call.descs)

C36_OtherDevice ==
    /\ pc = "done" /\ call.m = "Write" /\ call.id = 1
    /\ result.err = "nil" /\ result.st.id = 2 /\ ret.err = "nil"

\* C36: Ping of device 1 has returned the id 2
C36_PingOther ==
    /\ pc = "done" /\ call.m = "Ping" /\ call.id = 1
    /\ ret.err = "nil" /\ ret.data.ID = 2

---------------------------------------------------------------------------
(* What readStatus hands to the parser (SpecShort, Spec).                  *)

\* the call has returned after at least one readStatus
ReadReturned == pc = "done" /\ nstatus >= 1

\* C37: the packet readStatus hands to the parser starts with FF FF FD 00
\* and has LEN + 7 >= 11 bytes, LEN being its length field; so no call fails
\* with ErrTruncatedStatus, and ErrInvalidStatusLength is returned only by
\* readStatus itself, for a length field below 4, before the body is read;
\* a call whose packet was not completed returns that error, ErrReadTimeout
\* or the error of the transport.
C37_ParserInput ==
    /\ ReadReturned /\ Len(packet) > 7 =>
          /\ Slice(packet, 0, 4) = <<header1, header2, header3, headerR>>
          /\ Len(packet) = 7 + statusLength(Slice(packet, 4, 7))
          /\ Len(packet) >= 7 + StatusLenMin
    /\ ReadReturned => ret.err # "ErrTruncatedStatus"
    /\ ReadReturned /\ ret.err = "ErrInvalidStatusLength" =>
          /\ Len(packet) = 4 /\ Len(buf) = 3
          /\ statusLength(buf) < StatusLenMin
    /\ ReadReturned /\ Len(packet) <= 7 =>
          ret.err \in {"ErrInvalidStatusLength", "ErrReadTimeout",
                       "ErrMockReadError"}

\* C37: a packet of 11 bytes was handed to the parser, which found its CRC
\* wrong
C37_Witness ==
    /\ ReadReturned /\ Len(packet) = 7 + StatusLenMin
    /\ statusLength(Slice(packet, 4, 7)) = StatusLenMin
    /\ ret.err = "ErrStatusCRCInvalid"

\* C37: the input ended inside the body and the call returned ErrReadTimeout
C37_Incomplete ==
    /\ ReadReturned /\ Len(packet) = 7 /\ buf = <<statusCmd>>
    /\ ret.err = "ErrReadTimeout"

---------------------------------------------------------------------------
(* SyncRead and BulkRead when a reply fails (Spec).                        *)

\* SyncRead or BulkRead has returned an error after its k-th readStatus,
\* k = nstatus
MultiFailed == MultiReturned /\ nstatus >= 1 /\ ret.err # "nil"

\* the number of parameters asked of the i-th device
AskedOf(i) == IF call.m = "SyncRead" THEN call.length ELSE call.descs[i].Length

\* C38: when the k-th of the n replies to a SyncRead or BulkRead fails (a
\* failed read, a device error, a wrong number of parameters), the call
\* returns that error and a nil result, though k - 1 replies were good, and
\* reads no further status: the replies behind the k-th stay in the
\* transport.
C38_AllOrNothing ==
    MultiFailed =>
        /\ ret.data = <<>>
        /\ Len(responses) = nstatus - 1
        /\ \A i \in 1..(nstatus - 1) :
              /\ dev[i].errByte = 0
              /\ Len(dev[i].params) = AskedOf(i)
              /\ responses[i] = dev[i].params
        /\ result.err = "nil" =>
              /\ ret.err \in {deviceError(dev[nstatus].errByte),
                               "ErrUnexpectedParamCount"}
              /\ consumed = Len(scriptBytes(SubSeq(dev, 1, nstatus)))
              /\ rx \o pending = scriptBytes(SubSeq(dev, nstatus + 1, Len(dev)))
        /\ result.err # "nil" => ret.err = result.err

\* C38: the second of three replies to a SyncRead had a device error: the
\* call returned it with a nil result after two statuses and the third
\* reply is in the transport
C38_Witness ==
    /\ MultiFailed /\ call.m = "SyncRead" /\ Len(call.ids) > 1
    /\ nstatus = 2 /\ Len(dev) > 2 /\ Len(responses) = 1
    /\ ret = [err |-> deviceError(7), data |-> <<>>]
    /\ rx = itemBytes(dev[3]) /\ pending = <<>>

---------------------------------------------------------------------------
(* Termination of readStatus (SpecLive).                                   *)

\* C39: a call that is reading returns, once the transport has nothing more
\* to give: however many bytes of garbage came before, and however late
\* each of them came, the reads that find the transport empty end in the
\* return of the call.
C39_Terminates == pc \in Reading ~> pc = "done"

\* C39: the call consumed the garbage, every byte of which came just before
\* the timer of its read fired, and returned ErrReadTimeout later than one
\* read timeout after it began
C39_Witness ==
    /\ pc = "done" /\ ret.err = "ErrReadTimeout"
    /\ Len(dev) = 1 /\ ~dev[1].some /\ Len(dev[1].pre) = MaxNoise
    /\ consumed = MaxNoise /\ pending = <<>>
    /\ now > readTimeout

---------------------------------------------------------------------------
(* The statuses the handler reads and those the devices send (SpecPolicy). *)

\* the number of status packets the devices of the chain sent for the call
Emitted == Len(StatusesOf(scriptBytes(dev)))

\* the call sent its instruction and returned (the simulated device did
\* not stop the program)
PolicyReturned == pc = "done" /\ tx # <<>> /\ ret.err # "panic"

\* C40: for every method (Ping of the broadcast id apart) called for
\* devices of the chain, the number of statuses the handler reads or waits
\* for is the number the devices send; so after a call that returned nil
\* the transport holds no complete status packet.
C40_ResponsePolicy ==
    PolicyReturned =>
        /\ nstatus = Emitted
        /\ ret.err = "nil" => StatusesOf(rx) = <<>>

\* BulkRead of the first device has returned nil, with the statuses of the
\* two devices it did not name in the transport
BulkReadLeftovers ==
    /\ PolicyReturned /\ call.m = "BulkRead" /\ Len(call.descs) = 1
    /\ ret = [err |-> "nil", data |-> <<<<20, 240>>>>]
    /\ nstatus = 1 /\ Emitted = 3 /\ Len(StatusesOf(rx)) = 2

\* Write without data to the first device has returned ErrReadTimeout: no
\* device sent a status
WriteUnanswered ==
    /\ PolicyReturned /\ call.m = "Write" /\ call.id = 153 /\ call.data = <<>>
    /\ ret.err = "ErrReadTimeout" /\ nstatus = 1 /\ Emitted = 0

============================================================================
